---- MODULE Spec2Model ----
(***************************************************************************)
(* A model of the workbook synchronisation engine of netnet_tools:         *)
(* netnet_updater.py (update_workbook and the operations it calls) and     *)
(* the parts of netnet_validator.py it relies on.                          *)
(*                                                                         *)
(* Text (formulas, sheet titles, labels) is a sequence of one-character    *)
(* strings, so that the regular-expression substitutions and the string    *)
(* operations of the code are computed character by character.  A cell     *)
(* value is a record [k, s]: k = "none" (empty cell), "n" (a number, s its *)
(* str() rendering), "s" (a string, s its characters) or "d" (a datetime,  *)
(* s its strftime('%Y-%m-%d') rendering).  A worksheet is a function from  *)
(* the coordinates <<row, col>> of its non-empty cells to their values.    *)
(***************************************************************************)
EXTENDS Integers, Sequences, FiniteSets, TLC

VARIABLES
    rw,          \* the reference rewriter's run: formula, columns, output
    rp,          \* the full-replace comparison: sheet, two exports, outcomes
    disk,        \* the workbook file on disk (sequence of sheets)
    backups,     \* the backup copies made so far (contents, oldest first)
    inp,         \* the arguments of update_workbook and the export files
    run,         \* number of the current update_workbook call
    pc,          \* the step the current call is at
    dry,         \* dry_run argument of the current call
    wb,          \* the workbook object loaded by the current call
    loc,         \* locals of the call: is_sheet, bs_sheet, validation errors
    result,      \* the UpdateResult of the current call
    trace,       \* the steps the current call has taken, in order
    hist,        \* what earlier calls returned and started from
    unit         \* one function called on its own: its arguments, its results

vars == <<rw, rp, unit, disk, backups, inp, run, pc, dry, wb, loc, result, trace, hist>>
updVars == <<disk, backups, inp, run, pc, dry, wb, loc, result, trace, hist>>

----------------------------------------------------------------------------
(* Characters and text *)

UpperLetters ==
    <<"A", "B", "C", "D", "E", "F", "G", "H", "I", "J", "K", "L", "M",
      "N", "O", "P", "Q", "R", "S", "T", "U", "V", "W", "X", "Y", "Z">>
LowerLetters ==
    <<"a", "b", "c", "d", "e", "f", "g", "h", "i", "j", "k", "l", "m",
      "n", "o", "p", "q", "r", "s", "t", "u", "v", "w", "x", "y", "z">>

Upper == {UpperLetters[i] : i \in 1..26}
Lower == {LowerLetters[i] : i \in 1..26}
Digit == {"0", "1", "2", "3", "4", "5", "6", "7", "8", "9"}
\* \w of Python's re module on ASCII text
Word == Upper \cup Lower \cup Digit \cup {"_"}

\* str.lower() on one character
LowerChar(c) ==
    IF c \in Upper
    THEN LowerLetters[CHOOSE i \in 1..26 : UpperLetters[i] = c]
    ELSE c

\* str.lower()
LowerText(t) == [i \in 1..Len(t) |-> LowerChar(t[i])]

\* s[i..] starts with t
StartsAt(s, i, t) ==
    /\ i + Len(t) - 1 <= Len(s)
    /\ \A j \in 1..Len(t) : s[i + j - 1] = t[j]

\* str.endswith
EndsWith(s, t) == Len(s) >= Len(t) /\ StartsAt(s, Len(s) - Len(t) + 1, t)

\* number of consecutive characters of class cls from position i on
RECURSIVE RunLen(_, _, _)
RunLen(s, i, cls) ==
    IF i > Len(s) \/ s[i] \notin cls THEN 0 ELSE 1 + RunLen(s, i + 1, cls)

\* openpyxl.utils.get_column_letter
RECURSIVE get_column_letter(_)
get_column_letter(n) ==
    IF n <= 26
    THEN <<UpperLetters[n]>>
    ELSE get_column_letter((n - 1) \div 26) \o <<UpperLetters[((n - 1) % 26) + 1]>>

----------------------------------------------------------------------------
(* adjust_formula_column: three re.sub passes *)

\* r'(\w+)!([A-Z]+)(\d+)' matched at position i: the lengths of the three
\* groups, or <<>> when there is no match there.  Every + is forced to its
\* longest run, because what must follow is outside the repeated class.
SheetRefMatch(s, i) ==
    LET w == RunLen(s, i, Word)
        u == RunLen(s, i + w + 1, Upper)
        d == RunLen(s, i + w + 1 + u, Digit)
    IN  IF w >= 1 /\ i + w <= Len(s) /\ s[i + w] = "!" /\ u >= 1 /\ d >= 1
        THEN <<w, u, d>>
        ELSE <<>>

RECURSIVE SubSheetRefs(_, _, _, _)
SubSheetRefs(s, i, source_letter, target_letter) ==
    IF i > Len(s) THEN <<>>
    ELSE LET m == SheetRefMatch(s, i) IN
         IF m = <<>>
         THEN <<s[i]>> \o SubSheetRefs(s, i + 1, source_letter, target_letter)
         ELSE LET sheet == SubSeq(s, i, i + m[1] - 1)
                  col == SubSeq(s, i + m[1] + 1, i + m[1] + m[2])
                  row == SubSeq(s, i + m[1] + m[2] + 1, i + m[1] + m[2] + m[3])
                  next == i + m[1] + 1 + m[2] + m[3]
              IN  (IF col = source_letter
                   THEN sheet \o <<"!">> \o target_letter \o row
                   ELSE SubSeq(s, i, next - 1))
                  \o SubSheetRefs(s, next, source_letter, target_letter)

\* r'([A-Z]+)(\d+):([A-Z]+)(\d+)' matched at position i
RangeRefMatch(s, i) ==
    LET u1 == RunLen(s, i, Upper)
        d1 == RunLen(s, i + u1, Digit)
        u2 == RunLen(s, i + u1 + d1 + 1, Upper)
        d2 == RunLen(s, i + u1 + d1 + 1 + u2, Digit)
    IN  IF /\ u1 >= 1 /\ d1 >= 1
           /\ i + u1 + d1 <= Len(s) /\ s[i + u1 + d1] = ":"
           /\ u2 >= 1 /\ d2 >= 1
        THEN <<u1, d1, u2, d2>>
        ELSE <<>>

RECURSIVE SubRangeRefs(_, _, _, _)
SubRangeRefs(s, i, source_letter, target_letter) ==
    IF i > Len(s) THEN <<>>
    ELSE LET m == RangeRefMatch(s, i) IN
         IF m = <<>>
         THEN <<s[i]>> \o SubRangeRefs(s, i + 1, source_letter, target_letter)
         ELSE LET col1 == SubSeq(s, i, i + m[1] - 1)
                  row1 == SubSeq(s, i + m[1], i + m[1] + m[2] - 1)
                  j == i + m[1] + m[2] + 1
                  col2 == SubSeq(s, j, j + m[3] - 1)
                  row2 == SubSeq(s, j + m[3], j + m[3] + m[4] - 1)
                  next == j + m[3] + m[4]
              IN  (IF col1 = source_letter THEN target_letter ELSE col1)
                  \o row1 \o <<":">>
                  \o (IF col2 = source_letter THEN target_letter ELSE col2)
                  \o row2
                  \o SubRangeRefs(s, next, source_letter, target_letter)

\* r'(^|[^A-Z$])([A-Z]+)(\d+)(?![A-Z])' matched at position i: the lengths
\* of the three groups.  The prefix is empty at the start of the text and one
\* character outside [A-Z$] elsewhere.  \d+ gives one digit back when the
\* longest run of digits is followed by a capital letter.
SimpleRefMatch(s, i) ==
    LET p == IF i = 1 /\ s[i] \in Upper THEN 0
             ELSE IF s[i] \notin (Upper \cup {"$"}) THEN 1
             ELSE 2
        u == RunLen(s, i + p, Upper)
        dmax == RunLen(s, i + p + u, Digit)
        after == i + p + u + dmax
        d == IF after <= Len(s) /\ s[after] \in Upper THEN dmax - 1 ELSE dmax
    IN  IF p < 2 /\ u >= 1 /\ d >= 1 THEN <<p, u, d>> ELSE <<>>

RECURSIVE SubSimpleRefs(_, _, _, _)
SubSimpleRefs(s, i, source_letter, target_letter) ==
    IF i > Len(s) THEN <<>>
    ELSE LET m == SimpleRefMatch(s, i) IN
         IF m = <<>>
         THEN <<s[i]>> \o SubSimpleRefs(s, i + 1, source_letter, target_letter)
         ELSE LET prefix == SubSeq(s, i, i + m[1] - 1)
                  col == SubSeq(s, i + m[1], i + m[1] + m[2] - 1)
                  row == SubSeq(s, i + m[1] + m[2], i + m[1] + m[2] + m[3] - 1)
                  next == i + m[1] + m[2] + m[3]
              IN  (IF col = source_letter
                   THEN prefix \o target_letter \o row
                   ELSE SubSeq(s, i, next - 1))
                  \o SubSimpleRefs(s, next, source_letter, target_letter)

adjust_formula_column(formula, source_col, target_col) ==
    LET source_letter == get_column_letter(source_col)
        target_letter == get_column_letter(target_col)
        f1 == SubSheetRefs(formula, 1, source_letter, target_letter)
        f2 == SubRangeRefs(f1, 1, source_letter, target_letter)
    IN  SubSimpleRefs(f2, 1, source_letter, target_letter)

----------------------------------------------------------------------------
(* Cell values and worksheets *)

None == [k |-> "none", s |-> <<>>]
Num(t) == [k |-> "n", s |-> t]
Str(t) == [k |-> "s", s |-> t]

IsStr(v) == v.k = "s"

\* Python truthiness of a cell value (`if value:`)
Truthy(v) ==
    CASE v.k = "none" -> FALSE
      [] v.k = "n" -> v.s # <<"0">>
      [] v.k = "s" -> v.s # <<>>
      [] OTHER -> TRUE

\* str.strip(), on blanks
RECURSIVE LStrip(_)
LStrip(t) == IF t # <<>> /\ Head(t) = " " THEN LStrip(Tail(t)) ELSE t
RECURSIVE RStrip(_)
RStrip(t) ==
    IF t # <<>> /\ t[Len(t)] = " " THEN RStrip(SubSeq(t, 1, Len(t) - 1)) ELSE t
Strip(t) == RStrip(LStrip(t))

\* str(value): the datetime's str() carries the time of day
StrOf(v) ==
    IF v.k = "d"
    THEN v.s \o <<" ", "0", "0", ":", "0", "0", ":", "0", "0">>
    ELSE v.s

\* `str(value).strip() if value else ""`
NormalizedStr(v) == IF Truthy(v) THEN Strip(StrOf(v)) ELSE <<>>

is_formula(v) == IsStr(v) /\ v.s # <<>> /\ Head(v.s) = "="

\* worksheet.cell(row, column).value
Cell(ws, row, col) == IF <<row, col>> \in DOMAIN ws THEN ws[<<row, col>>] ELSE None

\* worksheet.cell(row, column).value = v
Put(ws, row, col, v) ==
    IF v = None
    THEN [k \in DOMAIN ws \ {<<row, col>>} |-> ws[k]]
    ELSE [k \in DOMAIN ws \cup {<<row, col>>} |-> IF k = <<row, col>> THEN v ELSE ws[k]]

\* the cells of `over` laid on top of ws
Overlay(ws, over) ==
    [k \in DOMAIN ws \cup DOMAIN over |-> IF k \in DOMAIN over THEN over[k] ELSE ws[k]]

\* ws without the cells at the coordinates in `gone`
Without(ws, gone) == [k \in DOMAIN ws \ gone |-> ws[k]]

EmptySheet == [k \in {} |-> None]

RowsOf(ws) == {k[1] : k \in DOMAIN ws}
ColsOf(ws) == {k[2] : k \in DOMAIN ws}

Min(S) == CHOOSE x \in S : \A y \in S : x <= y
Max(S) == CHOOSE x \in S : \A y \in S : x >= y

\* the members of a set of integers in ascending order
RECURSIVE Sorted(_)
Sorted(S) == IF S = {} THEN <<>> ELSE <<Min(S)>> \o Sorted(S \ {Min(S)})

RECURSIVE Flatten(_)
Flatten(ss) == IF ss = <<>> THEN <<>> ELSE Head(ss) \o Flatten(Tail(ss))

\* workbook.sheetnames
SheetNames(book) == [i \in 1..Len(book) |-> book[i].title]
HasSheet(book, name) == \E i \in 1..Len(book) : book[i].title = name
SheetIndex(book, name) == CHOOSE i \in 1..Len(book) : book[i].title = name
\* workbook[name]
Sheet(book, name) == book[SheetIndex(book, name)].cells
SetSheet(book, name, ws) == [book EXCEPT ![SheetIndex(book, name)].cells = ws]

----------------------------------------------------------------------------
(* netnet_validator.py: structure extraction and validation *)

START_ROW == 12
MAX_ROW == 60
LABEL_COL == 3
DATE_ROW == 10
CODE_ROW == 8
START_COL == 4
MAX_COL == 50
SCAN_END == 100

\* find_sheets: the last sheet named *_IS and the last named *_bs
\* (<<>> stands for None)
find_sheets(book) ==
    LET isIdx == {i \in 1..Len(book) : EndsWith(book[i].title, <<"_", "I", "S">>)}
        bsIdx == {i \in 1..Len(book) :
                      /\ ~EndsWith(book[i].title, <<"_", "I", "S">>)
                      /\ EndsWith(book[i].title, <<"_", "b", "s">>)}
    IN  [is_sheet |-> IF isIdx = {} THEN <<>> ELSE book[Max(isIdx)].title,
         bs_sheet |-> IF bsIdx = {} THEN <<>> ELSE book[Max(bsIdx)].title]

\* the scan gone wrong: the last row is left out
extract_row_labels_ShortOfLastRow(ws) ==
    LET rows == {r \in RowsOf(ws) :
                    /\ START_ROW <= r /\ r < MAX_ROW
                    /\ IsStr(Cell(ws, r, LABEL_COL))
                    /\ Strip(Cell(ws, r, LABEL_COL).s) # <<>>}
    IN  [r \in rows |-> Strip(Cell(ws, r, LABEL_COL).s)]

\* extract_row_labels: row -> stripped label, for the rows whose label cell
\* holds non-blank text
extract_row_labels(ws) ==
    LET rows == {r \in RowsOf(ws) :
                    /\ START_ROW <= r /\ r <= MAX_ROW
                    /\ IsStr(Cell(ws, r, LABEL_COL))
                    /\ Strip(Cell(ws, r, LABEL_COL).s) # <<>>}
    IN  [r \in rows |-> Strip(Cell(ws, r, LABEL_COL).s)]

\* extract_column_dates: col -> date text; a datetime is formatted, a string
\* is stripped, anything else is left out
extract_column_dates(ws) ==
    LET cols == {c \in ColsOf(ws) :
                    /\ START_COL <= c /\ c <= MAX_COL
                    /\ LET v == Cell(ws, DATE_ROW, c)
                       IN  v.k = "d" \/ (IsStr(v) /\ Strip(v.s) # <<>>)}
    IN  [c \in cols |->
            LET v == Cell(ws, DATE_ROW, c) IN IF v.k = "d" THEN v.s ELSE Strip(v.s)]

\* extract_period_codes
extract_period_codes(ws) ==
    LET cols == {c \in ColsOf(ws) :
                    /\ START_COL <= c /\ c <= MAX_COL
                    /\ IsStr(Cell(ws, CODE_ROW, c))
                    /\ Strip(Cell(ws, CODE_ROW, c).s) # <<>>}
    IN  [c \in cols |-> Strip(Cell(ws, CODE_ROW, c).s)]

Range(f) == {f[x] : x \in DOMAIN f}

\* map_workbook_structure raises ValueError when a raw-data sheet is missing
StructureRaises(book) ==
    find_sheets(book).is_sheet = <<>> \/ find_sheets(book).bs_sheet = <<>>

map_workbook_structure(book) ==
    LET found == find_sheets(book)
        is_ws == Sheet(book, found.is_sheet)
        bs_ws == Sheet(book, found.bs_sheet)
    IN  [is_sheet_name |-> found.is_sheet,
         bs_sheet_name |-> found.bs_sheet,
         is_row_labels |-> extract_row_labels(is_ws),
         is_column_dates |-> extract_column_dates(is_ws),
         is_period_codes |-> extract_period_codes(is_ws),
         bs_row_labels |-> extract_row_labels(bs_ws),
         bs_column_dates |-> extract_column_dates(bs_ws),
         bs_period_codes |-> extract_period_codes(bs_ws)]

ValidationError(kind, row, expected, actual) ==
    [kind |-> kind, row |-> row, expected |-> expected, actual |-> actual]

\* ValidationResult.__init__
ValidationResult(sheet_type) ==
    [sheet_type |-> sheet_type, is_valid |-> TRUE, row_mismatches |-> <<>>,
     missing_rows |-> <<>>, new_rows |-> <<>>, new_periods |-> <<>>,
     removed_periods |-> <<>>, warnings |-> <<>>, errors |-> <<>>]

\* add_error gone wrong: the result stays valid
add_error_KeepsValid(res, msg) == [res EXCEPT !.errors = Append(@, msg)]

\* ValidationResult.add_error
add_error(res, msg) ==
    [res EXCEPT !.errors = Append(@, msg), !.is_valid = FALSE]

\* "Check row label alignment": the loop over the expected rows
RECURSIVE CheckRowLabels(_, _, _, _)
CheckRowLabels(res, rows, expected_labels, export_labels) ==
    LET Checked(row) ==
            IF row \notin DOMAIN export_labels
            THEN add_error([res EXCEPT
                               !.missing_rows =
                                   Append(@, [row |-> row,
                                              expected_label |-> expected_labels[row]])],
                           ValidationError("missing", row, expected_labels[row], <<>>))
            ELSE IF export_labels[row] # expected_labels[row]
            THEN add_error([res EXCEPT
                               !.row_mismatches =
                                   Append(@, [row |-> row,
                                              expected |-> expected_labels[row],
                                              actual |-> export_labels[row]])],
                           ValidationError("mismatch", row, expected_labels[row],
                                           export_labels[row]))
            ELSE res
    IN  IF rows = <<>> THEN res
        ELSE CheckRowLabels(Checked(Head(rows)), Tail(rows), expected_labels,
                            export_labels)

\* the periods of `dates` whose date is among `wanted`, in column order,
\* each with codes.get(col, "")
PeriodsAmong(dates, codes, wanted) ==
    LET cols == Sorted({c \in DOMAIN dates : dates[c] \in wanted})
    IN  [i \in 1..Len(cols) |->
            [col |-> cols[i], date |-> dates[cols[i]],
             period_code |-> IF cols[i] \in DOMAIN codes THEN codes[cols[i]] ELSE <<>>]]

\* validate_export_against_structure
validate_export_against_structure(structure, export_ws, sheet_type) ==
    LET expected_labels == IF sheet_type = "is" THEN structure.is_row_labels
                           ELSE structure.bs_row_labels
        expected_dates == IF sheet_type = "is" THEN structure.is_column_dates
                          ELSE structure.bs_column_dates
        expected_codes == IF sheet_type = "is" THEN structure.is_period_codes
                          ELSE structure.bs_period_codes
        export_labels == extract_row_labels(export_ws)
        export_dates == extract_column_dates(export_ws)
        export_codes == extract_period_codes(export_ws)
        WithNewRows(res, rows) ==
            [res EXCEPT
                !.new_rows = [i \in 1..Len(rows) |->
                                 [row |-> rows[i], label |-> export_labels[rows[i]]]],
                !.warnings = @ \o [i \in 1..Len(rows) |->
                                      [kind |-> "new_row", row |-> rows[i],
                                       label |-> export_labels[rows[i]]]]]
        WithPeriods(res, new_periods, removed_periods) ==
            [res EXCEPT
                !.new_periods = new_periods,
                !.removed_periods = removed_periods,
                !.warnings =
                    @ \o (IF new_periods # <<>>
                          THEN <<[kind |-> "new_periods", count |-> Len(new_periods)]>>
                          ELSE <<>>)
                      \o (IF removed_periods # <<>>
                          THEN <<[kind |-> "removed_periods",
                                  count |-> Len(removed_periods)]>>
                          ELSE <<>>)]
    IN  WithPeriods(
            WithNewRows(CheckRowLabels(ValidationResult(sheet_type),
                                       Sorted(DOMAIN expected_labels),
                                       expected_labels, export_labels),
                        Sorted(DOMAIN export_labels \ DOMAIN expected_labels)),
            PeriodsAmong(export_dates, export_codes,
                         Range(export_dates) \ Range(expected_dates)),
            PeriodsAmong(expected_dates, expected_codes,
                         Range(expected_dates) \ Range(export_dates)))

----------------------------------------------------------------------------
(* netnet_updater.py: incremental merge and full replace of a raw-data sheet *)

\* the columns of dates holding date d
ColsOfDate(dates, d) == {c \in DOMAIN dates : dates[c] = d}

\* the keys of {date: col for col, date in dates.items()} in insertion order,
\* each as the column of the date's first occurrence
FirstCols(dates) ==
    Sorted({c \in DOMAIN dates : c = Min(ColsOfDate(dates, dates[c]))})

\* the cell test gone wrong: formula cells are compared like any other
CellChanged_FormulasToo(existing_val, new_val) ==
    NormalizedStr(existing_val) # NormalizedStr(new_val)

\* the test update_raw_data_sheet makes of one cell: a cell holding a formula
\* is skipped, any other is changed when the normalised texts differ
CellChanged(existing_val, new_val) ==
    /\ ~is_formula(existing_val)
    /\ NormalizedStr(existing_val) # NormalizedStr(new_val)

\* update_raw_data_sheet: the changes found, in the order found, and the
\* sheet afterwards.  A date maps to its last column on either side; the
\* rows are the labelled rows of the existing sheet.
update_raw_data_sheet(existing_ws, export_ws, sheet_type, dry_run) ==
    LET existing_dates == extract_column_dates(existing_ws)
        export_dates == extract_column_dates(export_ws)
        row_labels == extract_row_labels(existing_ws)
        rows == Sorted(DOMAIN row_labels)
        firsts == FirstCols(export_dates)
        change(date, existing_col, export_col, row) ==
            LET existing_val == Cell(existing_ws, row, existing_col)
                new_val == Cell(export_ws, row, export_col)
            IN  IF CellChanged(existing_val, new_val)
                THEN <<[sheet_type |-> sheet_type, row |-> row, col |-> existing_col,
                        col_letter |-> get_column_letter(existing_col),
                        date |-> date, label |-> row_labels[row],
                        old_value |-> existing_val, new_value |-> new_val]>>
                ELSE <<>>
        ofDate(c) ==
            LET date == export_dates[c] IN
            IF ColsOfDate(existing_dates, date) = {} THEN <<>>
            ELSE Flatten([i \in 1..Len(rows) |->
                     change(date, Max(ColsOfDate(existing_dates, date)),
                            Max(ColsOfDate(export_dates, date)), rows[i])])
        changes == Flatten([i \in 1..Len(firsts) |-> ofDate(firsts[i])])
        written == [k \in {<<changes[i].row, changes[i].col>> : i \in 1..Len(changes)} |->
                       (CHOOSE ch \in Range(changes) : <<ch.row, ch.col>> = k).new_value]
        gone == {k \in DOMAIN written : written[k] = None}
    IN  [changes |-> changes,
         ws |-> IF dry_run THEN existing_ws
                ELSE Without(Overlay(existing_ws, written), gone)]

\* number of characters before the next blank, from position i on
RECURSIVE WordLen(_, _)
WordLen(t, i) == IF i > Len(t) \/ t[i] = " " THEN 0 ELSE 1 + WordLen(t, i + 1)

\* str.split() on blanks: the words of a text
RECURSIVE SplitWords(_)
SplitWords(t) ==
    LET u == LStrip(t)
        n == WordLen(u, 1)
    IN  IF u = <<>> THEN <<>>
        ELSE <<SubSeq(u, 1, n)>> \o SplitWords(SubSeq(u, n + 1, Len(u)))

RECURSIVE JoinWords(_, _)
JoinWords(words, sep) ==
    IF words = <<>> THEN <<>>
    ELSE IF Len(words) = 1 THEN words[1]
    ELSE words[1] \o sep \o JoinWords(Tail(words), sep)

\* normalize_label: lower case, stripped, inner blanks collapsed
normalize_label(label) == JoinWords(SplitWords(Strip(LowerText(label))), <<" ">>)

\* build_label_to_row_map: normalized label -> the first row carrying it
build_label_to_row_map(ws) ==
    LET rows == {r \in RowsOf(ws) :
                    /\ START_ROW <= r /\ r <= MAX_ROW
                    /\ IsStr(Cell(ws, r, LABEL_COL))
                    /\ Strip(Cell(ws, r, LABEL_COL).s) # <<>>}
        norm(r) == normalize_label(Cell(ws, r, LABEL_COL).s)
    IN  [l \in {norm(r) : r \in rows} |-> Min({r \in rows : norm(r) = l})]

\* `for col in range(4, 100): if value: ... elif col > 4: break` over one
\* row: the columns reached that hold a truthy value
RECURSIVE LeadingCols(_, _, _)
LeadingCols(ws, row, col) ==
    IF col >= SCAN_END THEN {}
    ELSE IF Truthy(Cell(ws, row, col)) THEN {col} \cup LeadingCols(ws, row, col + 1)
    ELSE IF col > START_COL THEN {}
    ELSE LeadingCols(ws, row, col + 1)

\* end (exclusive) of range(12, 60), the data rows cleared and copied
REPLACE_ROW_END == 60

\* replace_all_raw_data: the sheet afterwards and the count of cells written
replace_all_raw_data(existing_ws, export_ws, sheet_type, dry_run) ==
    LET inCols(k) == START_COL <= k[2] /\ k[2] < SCAN_END
        cleared ==
            Without(existing_ws,
                    {k \in DOMAIN existing_ws :
                        /\ inCols(k)
                        /\ \/ k[1] \in {CODE_ROW, DATE_ROW}
                           \/ /\ START_ROW <= k[1] /\ k[1] < REPLACE_ROW_END
                              /\ ~is_formula(existing_ws[k])})
        codeCols == LeadingCols(export_ws, CODE_ROW, START_COL)
        dateCols == LeadingCols(export_ws, DATE_ROW, START_COL)
        header == [k \in ({CODE_ROW} \X codeCols) \cup ({DATE_ROW} \X dateCols) |->
                      export_ws[k]]
        existing_labels == build_label_to_row_map(existing_ws)
        export_labels == build_label_to_row_map(export_ws)
        matched == {l \in DOMAIN export_labels : l \in DOMAIN existing_labels}
        export_dates == extract_column_dates(export_ws)
        max_col == IF DOMAIN export_dates # {} THEN Max(DOMAIN export_dates) ELSE START_COL
        \* the export cells copied: rows in range(12, 60) with a matched label
        copied == {k \in DOMAIN export_ws :
                      /\ START_ROW <= k[1] /\ k[1] < REPLACE_ROW_END
                      /\ \E l \in matched : export_labels[l] = k[1]
                      /\ START_COL <= k[2] /\ k[2] <= max_col}
        target(k) ==
            <<existing_labels[CHOOSE l \in matched : export_labels[l] = k[1]], k[2]>>
        data == [t \in {target(k) : k \in copied} |->
                    export_ws[CHOOSE k \in copied : target(k) = t]]
    IN  [cells_written |->
             Cardinality(codeCols) + Cardinality(dateCols) + Cardinality(copied),
         ws |-> IF dry_run THEN existing_ws
                ELSE Overlay(Overlay(cleared, header), data)]

----------------------------------------------------------------------------
(* netnet_updater.py: company prefix and sheet renaming *)

\* str.replace(old, new): every non-overlapping occurrence, left to right
RECURSIVE Replace(_, _, _, _)
Replace(t, i, old, new) ==
    IF i > Len(t) THEN <<>>
    ELSE IF StartsAt(t, i, old) THEN new \o Replace(t, i + Len(old), old, new)
    ELSE <<t[i]>> \o Replace(t, i + 1, old, new)

\* substring test (`old in text`)
Contains(t, sub) == \E i \in 1..(Len(t) - Len(sub) + 1) : StartsAt(t, i, sub)

\* extract_company_name_from_filename, applied to the parts that
\* Path(filename).stem.split(" - ") yields; <<>> stands for None
extract_company_name_from_filename(parts) ==
    IF Len(parts) >= 2 THEN Strip(parts[1]) ELSE <<>>

suffixes_to_remove ==
    {<<"c", "o">>,
     <<"l", "t", "d">>,
     <<"i", "n", "c">>,
     <<"c", "o", "r", "p">>,
     <<"m", "f", "g">>,
     <<"c", "o", "r", "p", "o", "r", "a", "t", "i", "o", "n">>,
     <<"c", "o", "m", "p", "a", "n", "y">>,
     <<"l", "i", "m", "i", "t", "e", "d">>}

\* normalize_company_name_for_sheet
normalize_company_name_for_sheet(company_name) ==
    LET words == SplitWords(LowerText(company_name))
        kept == SelectSeq(words, LAMBDA w : w \notin suffixes_to_remove)
        name_words == IF kept # <<>> THEN kept
                      ELSE IF words # <<>> THEN <<words[1]>>
                      ELSE <<<<"u", "n", "k", "n", "o", "w", "n">>>>
    IN  IF company_name = <<>> THEN <<>> ELSE JoinWords(name_words, <<>>)

\* detect_current_company_prefix: the name, less its last three characters,
\* of the first sheet named *_is or *_bs in any letter case; <<>> for None
detect_current_company_prefix(book) ==
    LET hits == {i \in 1..Len(book) :
                    \/ EndsWith(LowerText(book[i].title), <<"_", "i", "s">>)
                    \/ EndsWith(LowerText(book[i].title), <<"_", "b", "s">>)}
    IN  IF hits = {} THEN <<>>
        ELSE SubSeq(book[Min(hits)].title, 1, Len(book[Min(hits)].title) - 3)

\* the rename map gone wrong: the income statement sheet keeps a lower-case
\* suffix
RenameMap_LowerSuffix(book, old_prefix, new_prefix) ==
    LET new_name(i) ==
            IF LowerText(book[i].title) = LowerText(old_prefix) \o <<"_", "i", "s">>
            THEN new_prefix \o <<"_", "i", "s">>
            ELSE IF LowerText(book[i].title) = LowerText(old_prefix) \o <<"_", "b", "s">>
            THEN new_prefix \o <<"_", "b", "s">>
            ELSE <<>>
    IN  SelectSeq([i \in 1..Len(book) |-> <<book[i].title, new_name(i)>>],
                  LAMBDA e : e[2] # <<>>)

\* the rename map of rename_sheets_and_update_references, in sheet order
RenameMap(book, old_prefix, new_prefix) ==
    LET new_name(i) ==
            IF LowerText(book[i].title) = LowerText(old_prefix) \o <<"_", "i", "s">>
            THEN new_prefix \o <<"_", "I", "S">>
            ELSE IF LowerText(book[i].title) = LowerText(old_prefix) \o <<"_", "b", "s">>
            THEN new_prefix \o <<"_", "b", "s">>
            ELSE <<>>
    IN  SelectSeq([i \in 1..Len(book) |-> <<book[i].title, new_name(i)>>],
                  LAMBDA e : e[2] # <<>>)

\* the two replacements made in a formula for each renamed sheet, in order
RECURSIVE RepointFormula(_, _)
RepointFormula(formula, rename_map) ==
    IF rename_map = <<>> THEN formula
    ELSE LET old_name == rename_map[1][1]
             new_name == rename_map[1][2]
             f1 == Replace(formula, 1, old_name \o <<"!">>, new_name \o <<"!">>)
             f2 == Replace(f1, 1, LowerText(old_name) \o <<"!">>, new_name \o <<"!">>)
         IN  RepointFormula(f2, Tail(rename_map))

\* the cells scanned for formulas: range(1, 100) both ways
InRenameScan(k) == 1 <= k[1] /\ k[1] < SCAN_END /\ 1 <= k[2] /\ k[2] < SCAN_END

\* the formula cells of one sheet that the replacements change
Repointed(ws, rename_map) ==
    {k \in DOMAIN ws :
        /\ InRenameScan(k) /\ is_formula(ws[k])
        /\ RepointFormula(ws[k].s, rename_map) # ws[k].s}

\* "Update all formula references first": the first loop of
\* rename_sheets_and_update_references, over every sheet of the workbook
UpdateFormulaReferences(book, rename_map) ==
    [i \in 1..Len(book) |->
        [title |-> book[i].title,
         cells |-> [k \in DOMAIN book[i].cells |->
                       IF k \in Repointed(book[i].cells, rename_map)
                       THEN Str(RepointFormula(book[i].cells[k].s, rename_map))
                       ELSE book[i].cells[k]]]]

\* the formulas_updated count of that loop
RECURSIVE FormulasUpdated(_, _, _)
FormulasUpdated(book, rename_map, i) ==
    IF i > Len(book) THEN 0
    ELSE Cardinality(Repointed(book[i].cells, rename_map))
         + FormulasUpdated(book, rename_map, i + 1)

\* "Now rename the sheets": the second loop
RenameSheets(book, rename_map) ==
    LET new_title(t) ==
            IF \E i \in 1..Len(rename_map) : rename_map[i][1] = t
            THEN rename_map[CHOOSE i \in 1..Len(rename_map) : rename_map[i][1] = t][2]
            ELSE t
    IN  [i \in 1..Len(book) |->
            [title |-> new_title(book[i].title), cells |-> book[i].cells]]

\* rename_sheets_and_update_references
rename_sheets_and_update_references(book, old_prefix, new_prefix, dry_run) ==
    LET Renamed(rename_map) ==
            IF rename_map = <<>>
            THEN [book |-> book, sheets_renamed |-> 0, formulas_updated |-> 0]
            ELSE [book |-> IF dry_run THEN book
                           ELSE RenameSheets(UpdateFormulaReferences(book, rename_map),
                                             rename_map),
                  sheets_renamed |-> Len(rename_map),
                  formulas_updated |-> FormulasUpdated(book, rename_map, 1)]
    IN  Renamed(RenameMap(book, old_prefix, new_prefix))

----------------------------------------------------------------------------
(* netnet_updater.py: period extension and the dependent calculation sheets *)

NCAV == <<"n", "c", "a", "v">>
PROFITABILITY == <<"p", "r", "o", "f", "i", "t", "a", "b", "i", "l", "i", "t", "y">>
PIOTROSKY == <<"p", "i", "o", "t", "r", "o", "s", "k", "y">>
C7_SHEET == <<"C", "7">>
RO == <<"r", "o">>

\* update_workbook's calculation_sheets
calculation_sheets == <<NCAV, PROFITABILITY, PIOTROSKY, C7_SHEET, RO>>

\* calc_sheet_config / calc_config: the sheets configured, their first
\* period column and their last formula row (the date row is row 1)
ConfiguredSheets == {NCAV, PROFITABILITY, RO}
CalcStartCol(name) == IF name = NCAV THEN 4 ELSE 3
CalcMaxRow(name) == IF name = NCAV THEN 30 ELSE IF name = PROFITABILITY THEN 15 ELSE 20
CALC_DATE_ROW == 1
EXTEND_ROW_END == 60

\* get_last_data_column: the last column of the date row holding a value,
\* scanning from column D and stopping at the second empty column in a row
RECURSIVE LastDataScan(_, _, _, _)
LastDataScan(ws, date_row, col, last_col) ==
    IF col >= SCAN_END THEN last_col
    ELSE IF Truthy(Cell(ws, date_row, col)) THEN LastDataScan(ws, date_row, col + 1, col)
    ELSE IF ~Truthy(Cell(ws, date_row, col + 1)) THEN last_col
    ELSE LastDataScan(ws, date_row, col + 1, last_col)

get_last_data_column(ws, date_row) == LastDataScan(ws, date_row, START_COL, 3)

\* the formulas of column source_col, rows in `rows`, adjusted for
\* target_col: the cells written into target_col
ExtendedColumn(ws, source_col, target_col, rows) ==
    LET src == {k \in DOMAIN ws : k[2] = source_col /\ k[1] \in rows /\ is_formula(ws[k])}
    IN  [k \in {<<j[1], target_col>> : j \in src} |->
            Str(adjust_formula_column(ws[<<k[1], source_col>>].s, source_col, target_col))]

\* the loop of add_new_period_column over the calculation sheets
RECURSIVE ExtendCalcSheets(_, _, _, _)
ExtendCalcSheets(book, names, new_date, count) ==
    IF names = <<>> THEN [book |-> book, formulas_extended |-> count]
    ELSE IF ~HasSheet(book, Head(names))
    THEN ExtendCalcSheets(book, Tail(names), new_date, count)
    ELSE LET calc_ws == Sheet(book, Head(names))
             Written(calc_new_col, cells) ==
                 ExtendCalcSheets(
                     SetSheet(book, Head(names),
                              Overlay(Put(calc_ws, CALC_DATE_ROW, calc_new_col, Str(new_date)),
                                      cells)),
                     Tail(names), new_date, count + Cardinality(DOMAIN cells))
             From(calc_last_col) ==
                 IF calc_last_col < START_COL
                 THEN ExtendCalcSheets(book, Tail(names), new_date, count)
                 ELSE Written(calc_last_col + 1,
                              ExtendedColumn(calc_ws, calc_last_col, calc_last_col + 1,
                                             2..(EXTEND_ROW_END - 1)))
         IN  From(get_last_data_column(calc_ws, CALC_DATE_ROW))

\* add_new_period_column (cell formatting is not part of the model)
add_new_period_column(book, sheet_name, new_date, new_period_code, export_ws, export_col, dry_run) ==
    LET ws == Sheet(book, sheet_name)
        Copied(headed, data) ==
            Without(Overlay(headed, data), {k \in DOMAIN data : data[k] = None})
        Headed(headed, new_col) ==
            Copied(headed,
                   [k \in {<<r, new_col>> : r \in DOMAIN extract_row_labels(headed)} |->
                       Cell(export_ws, k[1], export_col)])
        Filled(new_col) ==
            Headed(Put(Put(ws, CODE_ROW, new_col, Str(new_period_code)),
                       DATE_ROW, new_col, Str(new_date)),
                   new_col)
        Added(calc) ==
            [book |-> calc.book, formulas_extended |-> calc.formulas_extended,
             new_columns_added |-> 1]
    IN  IF dry_run
        THEN [book |-> book, formulas_extended |-> 0, new_columns_added |-> 0]
        ELSE Added(ExtendCalcSheets(
                       SetSheet(book, sheet_name,
                                Filled(get_last_data_column(ws, DATE_ROW) + 1)),
                       calculation_sheets, new_date, 0))

\* update_workbook's loop over the export's dates (the `if extend_periods:`
\* block): a date absent from the sheet when the loop starts gets a new
\* column; for the balance sheet the sheet's dates are read again each time
RECURSIVE ExtendPeriods(_, _, _, _, _, _, _)
ExtendPeriods(book, sheet_name, export_ws, cols, existing_dates, recheck, dry_run) ==
    IF cols = <<>>
    THEN [book |-> book, formulas_extended |-> 0, new_columns_added |-> 0, calls |-> 0]
    ELSE LET export_dates == extract_column_dates(export_ws)
             export_codes == extract_period_codes(export_ws)
             col == Head(cols)
             date == export_dates[col]
             code == IF col \in DOMAIN export_codes THEN export_codes[col] ELSE <<>>
             wanted ==
                 /\ date \notin existing_dates
                 /\ recheck =>
                        date \notin Range(extract_column_dates(Sheet(book, sheet_name)))
             Both(called, one, rest) ==
                 [book |-> rest.book,
                  formulas_extended |-> one.formulas_extended + rest.formulas_extended,
                  new_columns_added |-> one.new_columns_added + rest.new_columns_added,
                  calls |-> (IF called THEN 1 ELSE 0) + rest.calls]
             Then(called, one) ==
                 Both(called, one,
                      ExtendPeriods(one.book, sheet_name, export_ws, Tail(cols),
                                    existing_dates, recheck, dry_run))
             If(called) ==
                 Then(called,
                      IF called
                      THEN add_new_period_column(book, sheet_name, date, code, export_ws,
                                                 col, dry_run)
                      ELSE [book |-> book, formulas_extended |-> 0,
                            new_columns_added |-> 0])
         IN  If(wanted)

\* `is_sheet_name or bs_sheet_name`
SourceSheet(is_sheet_name, bs_sheet_name) ==
    IF is_sheet_name # <<>> THEN is_sheet_name ELSE bs_sheet_name

\* the date header of one source cell: strftime for a datetime, else
\* str(value)[:10]
HeaderDate(v) == IF v.k = "d" THEN v.s ELSE SubSeq(StrOf(v), 1, Min({10, Len(StrOf(v))}))

\* sync_calculation_sheet_dates
RECURSIVE SyncSheets(_, _, _, _)
SyncSheets(book, names, dates, count) ==
    IF names = <<>> THEN [book |-> book, dates_updated |-> count]
    ELSE IF ~HasSheet(book, Head(names)) \/ Head(names) \notin ConfiguredSheets
    THEN SyncSheets(book, Tail(names), dates, count)
    ELSE LET ws == Sheet(book, Head(names))
             start_col == CalcStartCol(Head(names))
             cleared == Without(ws, {k \in DOMAIN ws :
                                        /\ k[1] = CALC_DATE_ROW
                                        /\ start_col <= k[2] /\ k[2] < SCAN_END})
             headers == [k \in {<<CALC_DATE_ROW, start_col + i - 1>> : i \in 1..Len(dates)} |->
                            Str(dates[k[2] - start_col + 1])]
         IN  SyncSheets(SetSheet(book, Head(names), Overlay(cleared, headers)),
                        Tail(names), dates, count + Len(dates))

sync_calculation_sheet_dates(book, is_sheet_name, bs_sheet_name, dry_run) ==
    LET source_sheet == SourceSheet(is_sheet_name, bs_sheet_name)
        source_ws == Sheet(book, source_sheet)
        cols == Sorted(LeadingCols(source_ws, DATE_ROW, START_COL))
        dates == [i \in 1..Len(cols) |-> HeaderDate(Cell(source_ws, DATE_ROW, cols[i]))]
    IN  IF source_sheet = <<>> \/ ~HasSheet(book, source_sheet) \/ dates = <<>> \/ dry_run
        THEN [book |-> book, dates_updated |-> 0]
        ELSE SyncSheets(book, calculation_sheets, dates, 0)

\* the last column holding a formula in rows 2..max_row; the scan goes on
\* over columns without one up to start_col + 5
RECURSIVE LastFormulaScan(_, _, _, _, _)
LastFormulaScan(ws, start_col, max_row, col, last) ==
    IF col >= SCAN_END THEN last
    ELSE IF \E k \in DOMAIN ws : k[2] = col /\ 2 <= k[1] /\ k[1] <= max_row /\ is_formula(ws[k])
    THEN LastFormulaScan(ws, start_col, max_row, col + 1, col)
    ELSE IF col > start_col + 5 THEN last
    ELSE LastFormulaScan(ws, start_col, max_row, col + 1, last)

\* the column-by-column extension of one calculation sheet
RECURSIVE ExtendColumns(_, _, _, _, _)
ExtendColumns(ws, col, target_col, max_row, count) ==
    IF col > target_col THEN [ws |-> ws, formulas_added |-> count]
    ELSE LET Written(cells) ==
                 ExtendColumns(Overlay(ws, cells), col + 1, target_col, max_row,
                               count + Cardinality(DOMAIN cells))
         IN  Written(ExtendedColumn(ws, col - 1, col, 1..max_row))

RECURSIVE ExtendSheets(_, _, _, _)
ExtendSheets(book, names, num_periods, count) ==
    IF names = <<>> THEN [book |-> book, total_formulas |-> count]
    ELSE IF ~HasSheet(book, Head(names)) \/ Head(names) \notin ConfiguredSheets
    THEN ExtendSheets(book, Tail(names), num_periods, count)
    ELSE LET ws == Sheet(book, Head(names))
             start_col == CalcStartCol(Head(names))
             max_row == CalcMaxRow(Head(names))
             target_col == start_col + num_periods - 1
             Extended(ext) ==
                 ExtendSheets(SetSheet(book, Head(names), ext.ws), Tail(names),
                              num_periods, count + ext.formulas_added)
             From(last_formula_col) ==
                 IF last_formula_col >= target_col
                 THEN ExtendSheets(book, Tail(names), num_periods, count)
                 ELSE Extended(ExtendColumns(ws, last_formula_col + 1, target_col,
                                             max_row, 0))
         IN  From(LastFormulaScan(ws, start_col, max_row, start_col, start_col))

\* extend_calculation_sheet_formulas
extend_calculation_sheet_formulas(book, is_sheet_name, bs_sheet_name, dry_run) ==
    LET source_sheet == SourceSheet(is_sheet_name, bs_sheet_name)
        num_periods == Cardinality(LeadingCols(Sheet(book, source_sheet), DATE_ROW, START_COL))
    IN  IF source_sheet = <<>> \/ ~HasSheet(book, source_sheet) \/ num_periods = 0 \/ dry_run
        THEN [book |-> book, total_formulas |-> 0]
        ELSE ExtendSheets(book, calculation_sheets, num_periods, 0)

----------------------------------------------------------------------------
(* netnet_updater.py: the price ratio formulas of the ncav sheet *)

\* str(n) of a positive integer
RECURSIVE IntText(_)
IntText(n) ==
    LET d == <<"0", "1", "2", "3", "4", "5", "6", "7", "8", "9">>[(n % 10) + 1]
    IN  IF n < 10 THEN <<d>> ELSE IntText(n \div 10) \o <<d>>

\* `(label_a or label_b or "").lower().strip()` of a row
RowLabel(ws, row) ==
    LET a == Cell(ws, row, 1)
        b == Cell(ws, row, 2)
    IN  Strip(LowerText(IF Truthy(a) THEN a.s ELSE IF Truthy(b) THEN b.s ELSE <<>>))

\* the last column of row 1 holding a value; the scan stops at the second
\* empty column in a row past column E
RECURSIVE NcavLastScan(_, _, _)
NcavLastScan(ws, col, last) ==
    IF col >= SCAN_END THEN last
    ELSE IF Truthy(Cell(ws, CALC_DATE_ROW, col)) THEN NcavLastScan(ws, col + 1, col)
    ELSE IF col > 5 /\ ~Truthy(Cell(ws, CALC_DATE_ROW, col + 1)) THEN last
    ELSE NcavLastScan(ws, col + 1, last)

PRICE_ROW_FIRST == 40
PRICE_ROW_END == 50
PRICE_RATIO_SPAN == 10
DENOMINATOR_ROW_END == 60

\* the keys a denominator row is entered under in ratio_to_denominator
DenominatorKeys(label) ==
    IF Contains(label, <<"n", "c", "a", "v", " ", "/", " ", "s", "h", "a", "r", "e">>) \/ Contains(label, <<"n", "c", "a", "v", "/", "s", "h", "a", "r", "e">>)
    THEN IF Contains(label, <<"d", "i", "s", "c", "o", "u", "n", "t", "e", "d">>)
         THEN {<<"p", " ", "/", " ", "d", "i", "s", "c", "o", "u", "n", "t", "e", "d", " ", "n", "c", "a", "v">>, <<"p", "/", "d", "i", "s", "c", "o", "u", "n", "t", "e", "d", " ", "n", "c", "a", "v">>}
         ELSE {<<"p", " ", "/", " ", "n", "c", "a", "v">>, <<"p", "/", "n", "c", "a", "v">>}
    ELSE IF \/ Contains(label, <<"n", "e", "t", " ", "t", "a", "n", "g", "i", "b", "l", "e", " ", "a", "s", "s", "e", "t", "s", " ", "/", " ", "s", "h", "a">>)
            \/ Contains(label, <<"n", "t", "a", " ", "/", " ", "s", "h", "a">>) \/ Contains(label, <<"n", "t", "a", "/", "s", "h", "a">>)
    THEN {<<"p", " ", "/", " ", "n", "t", "a">>, <<"p", "/", "n", "t", "a">>}
    ELSE IF Contains(label, <<"n", "e", "t", " ", "c", "a", "s", "h", " ", "/", " ", "s", "h", "a", "r", "e">>) \/ Contains(label, <<"n", "e", "t", " ", "c", "a", "s", "h", "/", "s", "h", "a", "r", "e">>)
    THEN {<<"p", " ", "/", " ", "n", "e", "t", " ", "c", "a", "s", "h">>, <<"p", "/", "n", "e", "t", " ", "c", "a", "s", "h">>}
    ELSE {}

\* update_ncav_price_formulas
update_ncav_price_formulas(book, dry_run) ==
    LET ws == Sheet(book, NCAV)
        last_data_col == NcavLastScan(ws, START_COL, START_COL)
        last_col_letter == get_column_letter(last_data_col)
        priceRows == {r \in PRICE_ROW_FIRST..(PRICE_ROW_END - 1) : RowLabel(ws, r) = <<"p", "r", "i", "c", "e">>}
        price_row == Min(priceRows)
        price_formula_rows ==
            {r \in (price_row + 1)..(price_row + PRICE_RATIO_SPAN - 1) :
                \/ StartsAt(RowLabel(ws, r), 1, <<"p", " ", "/">>)
                \/ StartsAt(RowLabel(ws, r), 1, <<"p", "/">>)}
        \* the last row entered under a key wins
        denomRows(key) ==
            {r \in 1..(DENOMINATOR_ROW_END - 1) : key \in DenominatorKeys(RowLabel(ws, r))}
        new_formula(row) ==
            LET ratio == <<"=">> \o last_col_letter \o IntText(price_row) \o <<"/">>
                         \o last_col_letter \o IntText(Max(denomRows(RowLabel(ws, row))))
            IN  IF Contains(RowLabel(ws, row), <<"n", "e", "t", " ", "c", "a", "s", "h">>)
                THEN <<"=", "I", "F", "E", "R", "R", "O", "R", "(">> \o Tail(ratio)
                     \o <<",", " ", "\"", "N", "A", "\"", ")">>
                ELSE ratio
        updated == {r \in price_formula_rows :
                       /\ denomRows(RowLabel(ws, r)) # {}
                       /\ Cell(ws, r, last_data_col) # Str(new_formula(r))}
        written == [k \in {<<r, last_data_col>> : r \in updated} |-> Str(new_formula(k[1]))]
    IN  IF ~HasSheet(book, NCAV) \/ priceRows = {} \/ price_formula_rows = {}
        THEN [book |-> book, formulas_updated |-> 0]
        ELSE [book |-> IF dry_run THEN book ELSE SetSheet(book, NCAV, Overlay(ws, written)),
              formulas_updated |-> Cardinality(updated)]

----------------------------------------------------------------------------
(* update_workbook, step by step *)

\* how many calls of update_workbook one behaviour makes
MaxRuns == 2

\* UpdateResult.__init__ (backup_path 0 stands for None)
UpdateResult ==
    [success |-> FALSE, backup_path |-> 0, cells_updated |-> 0,
     is_cells_updated |-> 0, bs_cells_updated |-> 0, new_columns_added |-> 0,
     formulas_extended |-> 0, sheets_renamed |-> 0, formula_refs_updated |-> 0,
     price_formulas_updated |-> 0, old_company_prefix |-> <<>>,
     new_company_prefix |-> <<>>, errors |-> <<>>, warnings |-> <<>>,
     changes_log |-> <<>>]

\* "Validation failed. Use --force to override."
OverrideReminder == ValidationError("reminder", 0, <<>>, <<>>)

\* the order gone wrong: the backup is made after the income statement
\* has been updated
StepAfter_BackupLate(step) ==
    CASE step = "validate" -> "load"
      [] step = "load" -> "rename"
      [] step = "rename" -> "update_is"
      [] step = "update_is" -> "backup"
      [] step = "backup" -> "extend_is"
      [] step = "extend_is" -> "update_bs"
      [] step = "update_bs" -> "extend_bs"
      [] step = "extend_bs" -> "sync"
      [] step = "sync" -> "save"
      [] step = "save" -> "returned"

\* the order of the steps of update_workbook
StepAfter(step) ==
    CASE step = "validate" -> "backup"
      [] step = "backup" -> "load"
      [] step = "load" -> "rename"
      [] step = "rename" -> "update_is"
      [] step = "update_is" -> "extend_is"
      [] step = "extend_is" -> "update_bs"
      [] step = "update_bs" -> "extend_bs"
      [] step = "extend_bs" -> "sync"
      [] step = "sync" -> "save"
      [] step = "save" -> "returned"

\* one entry of the record of steps taken: which step, for which raw-data
\* sheet, and whether it changed a cell or a title of the workbook object
\* or wrote the workbook file
Took(step, sheet_type, wrote) == [step |-> step, sheet |-> sheet_type, wrote |-> wrote]

Export(t) == IF t = "is" THEN inp.is_export ELSE inp.bs_export
RawSheet(t) == IF t = "is" THEN loc.is_sheet ELSE loc.bs_sheet

\* the call: update_workbook(workbook_path, is_export_path, bs_export_path,
\* extend_periods, replace_all, dry_run, force, company_name)
Call ==
    /\ pc = "call"
    /\ run < MaxRuns
    /\ \E d \in BOOLEAN : dry' = d
    /\ result' = UpdateResult
    /\ trace' = <<>>
    /\ wb' = <<>>
    /\ loc' = [is_sheet |-> <<>>, bs_sheet |-> <<>>, disk0 |-> disk,
               backups0 |-> Len(backups), saves |-> 0]
    /\ pc' = "validate"
    /\ UNCHANGED <<rw, rp, unit, disk, backups, inp, run, hist>>

\* the collection gone wrong: the income statement export is not checked
CollectValidationErrors_BsOnly(structure, is_export, bs_export, force) ==
    LET v == validate_export_against_structure(structure, bs_export.ws, "bs")
    IN  IF bs_export.present /\ ~v.is_valid /\ ~force THEN v.errors ELSE <<>>

\* the validation errors collected from the exports given (none are
\* collected under force)
CollectValidationErrors(structure, is_export, bs_export, force) ==
    LET of(export, t) ==
            LET v == validate_export_against_structure(structure, export.ws, t)
            IN  IF export.present /\ ~v.is_valid /\ ~force THEN v.errors ELSE <<>>
    IN  of(is_export, "is") \o of(bs_export, "bs")

\* Step 1: validate structure compatibility (skipped under replace_all)
Validate ==
    /\ pc = "validate"
    /\ IF inp.replace_all
       THEN /\ pc' = StepAfter("validate")
            /\ UNCHANGED <<result, trace>>
       ELSE IF StructureRaises(disk)
       THEN /\ pc' = "raised"
            /\ UNCHANGED <<result, trace>>
       ELSE LET validation_errors ==
                    CollectValidationErrors(map_workbook_structure(disk),
                                            inp.is_export, inp.bs_export, inp.force)
            IN  /\ trace' = Append(trace, Took("Validating", "", FALSE))
                /\ IF validation_errors # <<>> /\ ~inp.force
                   THEN /\ result' = [result EXCEPT
                                         !.errors = validation_errors \o <<OverrideReminder>>]
                        /\ pc' = "returned"
                   ELSE /\ pc' = StepAfter("validate")
                        /\ UNCHANGED result
    /\ UNCHANGED <<rw, rp, unit, disk, backups, inp, run, dry, wb, loc, hist>>

\* create_backup: a copy of the workbook file beside it
create_backup(files, book) == Append(files, book)

\* Step 2 gone wrong: the backup is made in a dry run too
Backup_InDryRun ==
    /\ pc = "backup"
    /\ backups' = create_backup(backups, disk)
    /\ result' = [result EXCEPT !.backup_path = Len(backups')]
    /\ trace' = Append(trace, Took("Backing Up", "", FALSE))
    /\ pc' = StepAfter("backup")
    /\ UNCHANGED <<rw, rp, unit, disk, inp, run, dry, wb, loc, hist>>

\* Step 2: create the backup (unless dry run)
Backup ==
    /\ pc = "backup"
    /\ IF ~dry
       THEN /\ backups' = create_backup(backups, disk)
            /\ result' = [result EXCEPT !.backup_path = Len(backups')]
            /\ trace' = Append(trace, Took("Backing Up", "", FALSE))
       ELSE UNCHANGED <<backups, result, trace>>
    /\ pc' = StepAfter("backup")
    /\ UNCHANGED <<rw, rp, unit, disk, inp, run, dry, wb, loc, hist>>

\* Step 3: load the workbook and find the raw-data sheets
Load ==
    /\ pc = "load"
    /\ wb' = disk
    /\ loc' = [loc EXCEPT !.is_sheet = find_sheets(disk).is_sheet,
                          !.bs_sheet = find_sheets(disk).bs_sheet]
    /\ pc' = StepAfter("load")
    /\ UNCHANGED <<rw, rp, unit, disk, backups, inp, run, dry, result, trace, hist>>

\* the company name update_workbook settles on: the argument, else the
\* first one extracted from the export file names
NewCompanyName(company_name, is_export, bs_export) ==
    LET fromIs == IF is_export.present
                  THEN extract_company_name_from_filename(is_export.parts) ELSE <<>>
        fromBs == IF bs_export.present
                  THEN extract_company_name_from_filename(bs_export.parts) ELSE <<>>
    IN  IF company_name # <<>> THEN company_name
        ELSE IF fromIs # <<>> THEN fromIs
        ELSE fromBs

\* Step 3.5: company name and sheet renaming
Rename ==
    /\ pc = "rename"
    /\ LET old_prefix == detect_current_company_prefix(wb)
           new_company_name == NewCompanyName(inp.company_name, inp.is_export, inp.bs_export)
           new_prefix == normalize_company_name_for_sheet(new_company_name)
           changed == /\ new_company_name # <<>>
                      /\ old_prefix # <<>> /\ new_prefix # <<>>
                      /\ LowerText(old_prefix) # LowerText(new_prefix)
       IN  IF changed
           THEN \E r \in {rename_sheets_and_update_references(wb, old_prefix,
                                                               new_prefix, dry)} :
                /\ wb' = r.book
                /\ result' = [result EXCEPT !.old_company_prefix = old_prefix,
                                            !.new_company_prefix = new_prefix,
                                            !.sheets_renamed = r.sheets_renamed,
                                            !.formula_refs_updated = r.formulas_updated]
                /\ loc' = IF r.sheets_renamed > 0
                          THEN [loc EXCEPT !.is_sheet = find_sheets(r.book).is_sheet,
                                           !.bs_sheet = find_sheets(r.book).bs_sheet]
                          ELSE loc
                /\ trace' = Append(trace, Took("Renaming", "", r.book # wb))
           ELSE /\ result' = [result EXCEPT
                                 !.old_company_prefix = old_prefix,
                                 !.new_company_prefix =
                                     IF new_company_name # <<>> THEN new_prefix ELSE <<>>]
                /\ UNCHANGED <<wb, loc, trace>>
    /\ pc' = StepAfter("rename")
    /\ UNCHANGED <<rw, rp, unit, disk, backups, inp, run, dry, hist>>

\* Steps 4 and 5, first half: merge or replace the raw data of one sheet
UpdateSheet(t) ==
    /\ pc = "update_" \o t
    /\ IF Export(t).present /\ RawSheet(t) # <<>>
       THEN IF inp.replace_all
            THEN \E r \in {replace_all_raw_data(Sheet(wb, RawSheet(t)), Export(t).ws,
                                                 t, dry)} :
                     /\ wb' = SetSheet(wb, RawSheet(t), r.ws)
                     /\ result' = IF t = "is"
                                  THEN [result EXCEPT !.is_cells_updated = r.cells_written]
                                  ELSE [result EXCEPT !.bs_cells_updated = r.cells_written]
                     /\ trace' = Append(trace, Took("Replacing", t, wb' # wb))
            ELSE \E r \in {update_raw_data_sheet(Sheet(wb, RawSheet(t)), Export(t).ws,
                                                  t, dry)} :
                     /\ wb' = SetSheet(wb, RawSheet(t), r.ws)
                     /\ result' =
                            IF t = "is"
                            THEN [result EXCEPT
                                     !.is_cells_updated = Len(r.changes),
                                     !.changes_log = result.changes_log \o r.changes]
                            ELSE [result EXCEPT
                                     !.bs_cells_updated = Len(r.changes),
                                     !.changes_log = result.changes_log \o r.changes]
                     /\ trace' = Append(trace, Took("Merging", t, wb' # wb))
       ELSE UNCHANGED <<wb, result, trace>>
    /\ pc' = StepAfter(pc)
    /\ UNCHANGED <<rw, rp, unit, disk, backups, inp, run, dry, loc, hist>>

\* Steps 4 and 5, second half: new period columns (`if extend_periods:`)
ExtendSheet(t) ==
    /\ pc = "extend_" \o t
    /\ IF Export(t).present /\ RawSheet(t) # <<>> /\ ~inp.replace_all /\ inp.extend_periods
       THEN \E e \in {ExtendPeriods(wb, RawSheet(t), Export(t).ws,
                                     Sorted(DOMAIN extract_column_dates(Export(t).ws)),
                                     Range(extract_column_dates(Sheet(wb, RawSheet(t)))),
                                     t = "bs", dry)} :
                /\ wb' = e.book
                /\ result' = [result EXCEPT
                                 !.formulas_extended = @ + e.formulas_extended,
                                 !.new_columns_added = @ + e.new_columns_added]
                /\ trace' = IF e.calls > 0
                            THEN Append(trace, Took("Extending Periods", t, wb' # wb))
                            ELSE trace
       ELSE UNCHANGED <<wb, result, trace>>
    /\ pc' = StepAfter(pc)
    /\ UNCHANGED <<rw, rp, unit, disk, backups, inp, run, dry, loc, hist>>

\* the sum gone wrong: the balance sheet's cells are not counted
CellsUpdated_IncomeStatementOnly(res) == res.is_cells_updated

\* result.cells_updated = result.is_cells_updated + result.bs_cells_updated
CellsUpdated(res) == res.is_cells_updated + res.bs_cells_updated

\* Step 6: sync the calculation sheets' dates and formulas
Sync ==
    /\ pc = "sync"
    /\ LET cells_updated == CellsUpdated(result)
       IN  IF cells_updated > 0
           THEN \E synced \in {sync_calculation_sheet_dates(wb, loc.is_sheet,
                                                            loc.bs_sheet, dry)} :
                \E extended \in {extend_calculation_sheet_formulas(
                                     synced.book, loc.is_sheet, loc.bs_sheet, dry)} :
                \E priced \in {update_ncav_price_formulas(extended.book, dry)} :
                    /\ wb' = priced.book
                    /\ result' = [result EXCEPT
                                     !.cells_updated = cells_updated,
                                     !.formulas_extended = @ + extended.total_formulas,
                                     !.price_formulas_updated = priced.formulas_updated]
                    /\ trace' = Append(trace,
                                       Took("Syncing Dependent Sheets", "", wb' # wb))
           ELSE /\ result' = [result EXCEPT !.cells_updated = cells_updated]
                /\ UNCHANGED <<wb, trace>>
    /\ pc' = StepAfter("sync")
    /\ UNCHANGED <<rw, rp, unit, disk, backups, inp, run, dry, loc, hist>>

\* the condition gone wrong: changed cells alone do not save
ShouldSave_RenamedOnly(dry_run, res) == ~dry_run /\ res.sheets_renamed > 0

\* the condition gone wrong: renamed sheets alone do not save
ShouldSave_CellsOnly(dry_run, res) == ~dry_run /\ res.cells_updated > 0

\* the condition of Step 7
ShouldSave(dry_run, res) == ~dry_run /\ (res.cells_updated > 0 \/ res.sheets_renamed > 0)

\* Step 7: save the workbook; the call then returns with success set
Save ==
    /\ pc = "save"
    /\ IF ShouldSave(dry, result)
       THEN /\ disk' = wb
            /\ loc' = [loc EXCEPT !.saves = @ + 1]
            /\ trace' = Append(trace, Took("Saving", "", TRUE))
       ELSE UNCHANGED <<disk, loc, trace>>
    /\ result' = [result EXCEPT !.success = TRUE]
    /\ pc' = StepAfter("save")
    /\ UNCHANGED <<rw, rp, unit, backups, inp, run, dry, wb, hist>>

\* the call is over: it returned its UpdateResult, or map_workbook_structure
\* raised
Return ==
    /\ pc \in {"returned", "raised"}
    /\ hist' = Append(hist, [dry |-> dry, outcome |-> pc, result |-> result,
                             disk0 |-> loc.disk0, trace |-> trace])
    /\ run' = run + 1
    /\ pc' = "call"
    /\ UNCHANGED <<rw, rp, unit, disk, backups, inp, dry, wb, loc, result, trace>>

----------------------------------------------------------------------------
(* The workbooks and exports the runs are tried on *)

D1 == <<"2", "0", "2", "3", "-", "0", "6", "-", "3", "0">>
D2 == <<"2", "0", "2", "3", "-", "1", "2", "-", "3", "1">>
D3 == <<"2", "0", "2", "4", "-", "0", "6", "-", "3", "0">>

\* a sheet from a set of <<row, column, value>> triples
SheetOf(triples) ==
    [k \in {<<x[1], x[2]>> : x \in triples} |->
        (CHOOSE x \in triples : <<x[1], x[2]>> = k)[3]]

\* the income statement sheet of the workbook: periods in D and E, two
\* labelled rows, a formula in D12
ExistingIS ==
    SheetOf({<<8, 4, Str(<<"H", "1">>)>>, <<8, 5, Str(<<"H", "2">>)>>,
             <<10, 4, Str(D1)>>, <<10, 5, Str(D2)>>,
             <<12, 3, Str(<<"R", "e", "v">>)>>, <<13, 3, Str(<<"C", "o", "s", "t">>)>>,
             <<12, 4, Str(<<"=", "D", "1", "3">>)>>, <<12, 5, Num(<<"1">>)>>,
             <<13, 4, Num(<<"2">>)>>, <<13, 5, Num(<<"0">>)>>})

ExistingBS ==
    SheetOf({<<8, 4, Str(<<"H", "1">>)>>, <<8, 5, Str(<<"H", "2">>)>>,
             <<10, 4, Str(D1)>>, <<10, 5, Str(D2)>>,
             <<12, 3, Str(<<"C", "a", "s", "h">>)>>,
             <<12, 4, Num(<<"1">>)>>, <<12, 5, Num(<<"2">>)>>})

\* the ncav sheet: headers from D, formulas on the raw data and on its own
\* columns, a price block
ExistingNcav ==
    SheetOf({<<1, 4, Str(D1)>>, <<1, 5, Str(D2)>>,
             <<2, 4, Str(<<"=", "a", "_", "I", "S", "!", "D", "1", "2">>)>>, <<2, 5, Str(<<"=", "a", "_", "I", "S", "!", "E", "1", "2">>)>>,
             <<3, 5, Str(<<"=", "D", "5", "-", "D", "4">>)>>,
             <<34, 1, Str(<<"N", "C", "A", "V", " ", "/", " ", "S", "h", "a", "r", "e">>)>>, <<40, 1, Str(<<"P", "r", "i", "c", "e">>)>>,
             <<41, 1, Str(<<"P", " ", "/", " ", "N", "C", "A", "V">>)>>})

\* the ro sheet: headers from C
ExistingRo ==
    SheetOf({<<1, 3, Str(D1)>>, <<1, 4, Str(D2)>>,
             <<2, 3, Str(<<"=", "C", "5", "-", "C", "4">>)>>, <<2, 4, Str(<<"=", "D", "5", "-", "D", "4">>)>>})

IsTitles == {<<"a", "_", "I", "S">>, <<"a", "_", "i", "s">>}

ExistingWorkbook(is_title) ==
    <<[title |-> is_title, cells |-> ExistingIS],
      [title |-> <<"a", "_", "b", "s">>, cells |-> ExistingBS],
      [title |-> NCAV, cells |-> ExistingNcav],
      [title |-> RO, cells |-> ExistingRo]>>

NoExport == [present |-> FALSE, parts |-> <<>>, ws |-> EmptySheet]

\* an income statement export: same or changed value in E12, with or
\* without a third period, with the workbook's labels or another in C13
IsExportSheet(changed, third, other) ==
    SheetOf({<<8, 4, Str(<<"H", "1">>)>>, <<8, 5, Str(<<"H", "2">>)>>,
             <<10, 4, Str(D1)>>, <<10, 5, Str(D2)>>,
             <<12, 3, Str(<<"R", "e", "v">>)>>,
             <<13, 3, Str(IF other THEN <<"C", "o", "s", "t", "s">> ELSE <<"C", "o", "s", "t">>)>>,
             <<12, 4, Num(<<"5">>)>>,
             <<12, 5, Num(IF changed THEN <<"7">> ELSE <<"1">>)>>,
             <<13, 4, Num(<<"2">>)>>}
            \cup (IF third
                  THEN {<<8, 6, Str(<<"H", "3">>)>>, <<10, 6, Str(D3)>>,
                        <<12, 6, Num(<<"3">>)>>, <<13, 6, Num(<<"4">>)>>}
                  ELSE {}))

IsExportKinds ==
    {<<FALSE, FALSE, FALSE>>, <<TRUE, FALSE, FALSE>>, <<TRUE, TRUE, FALSE>>,
     <<FALSE, TRUE, FALSE>>, <<TRUE, FALSE, TRUE>>}

IsExports ==
    {NoExport} \cup
    {[present |-> TRUE, parts |-> <<<<"A", " ", "I", "n", "c">>, <<"I", "n", "c", "o", "m", "e", " ", "S", "t", "a", "t", "e", "m", "e", "n", "t">>>>,
      ws |-> IsExportSheet(k[1], k[2], k[3])] : k \in IsExportKinds}

BsExportSheet(changed, third) ==
    SheetOf({<<8, 4, Str(<<"H", "1">>)>>, <<8, 5, Str(<<"H", "2">>)>>,
             <<10, 4, Str(D1)>>, <<10, 5, Str(D2)>>,
             <<12, 3, Str(<<"C", "a", "s", "h">>)>>,
             <<12, 4, Num(<<"1">>)>>,
             <<12, 5, Num(IF changed THEN <<"9">> ELSE <<"2">>)>>}
            \cup (IF third
                  THEN {<<8, 6, Str(<<"H", "3">>)>>, <<10, 6, Str(D3)>>,
                        <<12, 6, Num(<<"6">>)>>}
                  ELSE {}))

BsExportKinds == {<<FALSE, FALSE>>, <<TRUE, FALSE>>, <<FALSE, TRUE>>}

BsExports ==
    {NoExport} \cup
    {[present |-> TRUE, parts |-> <<<<"b", "s">>>>,
      ws |-> BsExportSheet(k[1], k[2])] : k \in BsExportKinds}

CompanyNames == {<<>>, <<"B", " ", "C", "o">>}

RwIdle == [pc |-> "idle"]
RpIdle == [pc |-> "idle"]
UnitIdle == [pc |-> "idle"]

\* update_workbook is not part of the behaviour
UpdIdle ==
    /\ disk = <<>> /\ backups = <<>> /\ inp = <<>> /\ run = 0 /\ pc = "idle"
    /\ dry = FALSE /\ wb = <<>> /\ loc = <<>> /\ result = <<>> /\ trace = <<>>
    /\ hist = <<>>

\* nothing has been called yet: a workbook file, the arguments the calls
\* will be given
Init ==
    /\ rw = RwIdle
    /\ rp = RpIdle
    /\ unit = UnitIdle
    /\ \E t \in IsTitles : disk = ExistingWorkbook(t)
    /\ backups = <<>>
    /\ \E i \in IsExports, b \in BsExports, c \in CompanyNames,
          e \in BOOLEAN, r \in BOOLEAN, f \in BOOLEAN :
           /\ i.present \/ b.present
           /\ inp = [is_export |-> i, bs_export |-> b, company_name |-> c,
                     extend_periods |-> e, replace_all |-> r, force |-> f]
    /\ run = 0
    /\ pc = "call"
    /\ dry = FALSE
    /\ wb = <<>>
    /\ loc = [is_sheet |-> <<>>, bs_sheet |-> <<>>, disk0 |-> <<>>,
              backups0 |-> 0, saves |-> 0]
    /\ result = UpdateResult
    /\ trace = <<>>
    /\ hist = <<>>

Next ==
    \/ Call
    \/ Validate
    \/ Backup
    \/ Load
    \/ Rename
    \/ UpdateSheet("is")
    \/ ExtendSheet("is")
    \/ UpdateSheet("bs")
    \/ ExtendSheet("bs")
    \/ Sync
    \/ Save
    \/ Return

Spec == Init /\ [][Next]_vars

----------------------------------------------------------------------------
(* Properties of update_workbook *)

\* the run in progress is incremental
Incremental == ~inp.replace_all

\* C1: a Merging step leaves every cell that holds a formula before the
\* step with the identical formula after it.
C1_MergeKeepsFormulas ==
    [][(pc \in {"update_is", "update_bs"} /\ Incremental) =>
          \A i \in 1..Len(wb) : \A k \in DOMAIN wb[i].cells :
              is_formula(wb[i].cells[k]) =>
                  /\ Len(wb') = Len(wb)
                  /\ k \in DOMAIN wb'[i].cells
                  /\ wb'[i].cells[k] = wb[i].cells[k]]_vars

\* a merge that changed cells has passed a formula cell whose export value
\* differs from it
C1_Witness ==
    /\ pc = "extend_is" /\ ~dry /\ Incremental
    /\ result.is_cells_updated > 0
    /\ \E k \in DOMAIN Sheet(wb, loc.is_sheet) :
           /\ is_formula(Sheet(wb, loc.is_sheet)[k])
           /\ k \in DOMAIN inp.is_export.ws
           /\ NormalizedStr(inp.is_export.ws[k]) # NormalizedStr(Sheet(wb, loc.is_sheet)[k])

\* the run in progress is the second of two real incremental merges without
\* period extension, the first of which returned
SecondMerge ==
    /\ Len(hist) = 1 /\ ~hist[1].dry /\ hist[1].outcome = "returned" /\ hist[1].result.success
    /\ ~dry /\ Incremental /\ ~inp.extend_periods

\* C2: the second of two real incremental merges with the same export
\* returns an empty change list and cells-updated counters of 0.
C2_SecondMergeChangesNothing ==
    (SecondMerge /\ pc = "returned") =>
        /\ result.changes_log = <<>>
        /\ result.is_cells_updated = 0
        /\ result.bs_cells_updated = 0
        /\ result.cells_updated = 0

\* the second merge returned after a first that changed cells
C2_Witness ==
    /\ SecondMerge /\ pc = "returned" /\ result.success
    /\ hist[1].result.cells_updated > 0

\* C4: in a dry run no cell and no sheet title of the workbook changes, in
\* the file or in the loaded object, no backup is made, backup_path stays
\* unset and nothing is saved.
C4_DryRunChangesNothing ==
    dry =>
        /\ disk = loc.disk0
        /\ wb # <<>> => wb = loc.disk0
        /\ Len(backups) = loc.backups0
        /\ result.backup_path = 0
        /\ loc.saves = 0

\* a dry run that reported renamed sheets and changed cells has returned
C4_Witness ==
    /\ dry /\ pc = "returned" /\ result.success
    /\ result.sheets_renamed > 0 /\ result.cells_updated > 0

\* what a run reports of its changes
Reported(res) ==
    <<res.is_cells_updated, res.bs_cells_updated, res.new_columns_added,
      res.formulas_extended, res.sheets_renamed, res.formula_refs_updated,
      res.changes_log>>

\* C5: a dry run followed by the real run on the same workbook and exports:
\* both report the same counters and the same change list.
C5_DryRunReportsRealRun ==
    (/\ Len(hist) = 1 /\ hist[1].dry /\ hist[1].outcome = "returned"
     /\ ~dry /\ pc = "returned" /\ hist[1].disk0 = loc.disk0) =>
        Reported(hist[1].result) = Reported(result)

\* every validation error of the exports given, against the workbook as the
\* run found it
ErrorsOf(export, sheet_type) ==
    IF export.present
    THEN validate_export_against_structure(map_workbook_structure(loc.disk0),
                                           export.ws, sheet_type).errors
    ELSE <<>>

\* C6: an incremental run whose exports have validation errors returns,
\* without force, unsuccessful with those errors and then the reminder,
\* having made no backup, loaded and changed nothing and saved nothing; with
\* force it runs to the end.
C6_ValidationErrorsAbortUnlessForced ==
    (/\ pc = "returned" /\ Incremental
     /\ ErrorsOf(inp.is_export, "is") \o ErrorsOf(inp.bs_export, "bs") # <<>>) =>
        IF inp.force
        THEN result.success /\ result.errors = <<>>
        ELSE /\ ~result.success
             /\ result.errors = ErrorsOf(inp.is_export, "is")
                                \o ErrorsOf(inp.bs_export, "bs")
                                \o <<OverrideReminder>>
             /\ result.backup_path = 0
             /\ Len(backups) = loc.backups0
             /\ wb = <<>>
             /\ disk = loc.disk0
             /\ loc.saves = 0

\* a real run has failed on a validation error
C6_Witness ==
    /\ pc = "returned" /\ Incremental /\ ~inp.force /\ ~dry
    /\ ~result.success /\ Len(result.errors) >= 2

\* the backup precedes every write, and nothing follows the save
BackupFirstSaveLast ==
    /\ \A i \in 1..Len(trace) :
           trace[i].wrote => \E j \in 1..(i - 1) : trace[j].step = "Backing Up"
    /\ \A i \in 1..Len(trace) : trace[i].step = "Saving" => i = Len(trace)

\* the place of a step in the order of the steps, each sheet's update and
\* extension taken together
PlacePerSheet(e) ==
    CASE e.step = "Validating" -> 1
      [] e.step = "Backing Up" -> 2
      [] e.step = "Renaming" -> 3
      [] e.step \in {"Merging", "Replacing"} -> IF e.sheet = "is" THEN 4 ELSE 6
      [] e.step = "Extending Periods" -> IF e.sheet = "is" THEN 5 ELSE 7
      [] e.step = "Syncing Dependent Sheets" -> 8
      [] e.step = "Saving" -> 9

\* C7, as the code has it: in a real run the steps taken are, in this
\* order, Validating, Backing Up, Renaming, then Merging or Replacing and
\* Extending Periods for the income statement, then the same two for the
\* balance sheet, then Syncing Dependent Sheets, Saving; the backup precedes
\* the first write and the save is the last write.
C7_StepsInOrderPerSheet ==
    ~dry =>
        /\ \A i, j \in 1..Len(trace) :
               i < j => PlacePerSheet(trace[i]) < PlacePerSheet(trace[j])
        /\ BackupFirstSaveLast

\* the place of a step in the order Validating, Backing Up, Renaming,
\* Merging or Replacing, Extending Periods, Syncing Dependent Sheets, Saving
Place(e) ==
    CASE e.step = "Validating" -> 1
      [] e.step = "Backing Up" -> 2
      [] e.step = "Renaming" -> 3
      [] e.step \in {"Merging", "Replacing"} -> 4
      [] e.step = "Extending Periods" -> 5
      [] e.step = "Syncing Dependent Sheets" -> 6
      [] e.step = "Saving" -> 7

\* C7 as stated: no step of a real run is taken after a later one of that
\* order, the backup precedes the first write and the save is the last
\* write.
C7_StepsInOrder ==
    ~dry =>
        /\ \A i, j \in 1..Len(trace) : i < j => Place(trace[i]) <= Place(trace[j])
        /\ BackupFirstSaveLast

\* a real run that extended the income statement, then merged the balance
\* sheet, has saved
C7_Witness ==
    /\ ~dry /\ pc = "returned" /\ trace # <<>>
    /\ trace[Len(trace)].step = "Saving"
    /\ \E i, j \in 1..Len(trace) :
           /\ i < j
           /\ trace[i].step = "Extending Periods" /\ trace[i].wrote
           /\ trace[j].step = "Merging"

\* C8: a run saves at most once; a run that has ended has saved exactly when
\* it was not a dry run, was not aborted, and changed cells or renamed
\* sheets; a run that has not succeeded has left the file alone.
C8_SavesOnceIffChanged ==
    /\ loc.saves <= 1
    /\ pc \in {"returned", "raised"} =>
           /\ loc.saves = 1 <=>
                  /\ ~dry /\ result.success
                  /\ (result.cells_updated > 0 \/ result.sheets_renamed > 0)
           /\ loc.saves = 0 => disk = loc.disk0
           /\ ~result.success => loc.saves = 0

\* a real run that renamed sheets and changed no cell has saved
C8_Witness ==
    /\ pc = "returned" /\ ~dry /\ loc.saves = 1
    /\ result.cells_updated = 0 /\ result.sheets_renamed > 0

\* the first real incremental run with period extension, on the workbook
\* with dates in D and E, has just extended the income statement from an
\* export that adds 2024-06-30
ExtendedToThirdPeriod ==
    /\ pc = "update_bs" /\ ~dry /\ Incremental /\ inp.extend_periods
    /\ hist = <<>>
    /\ inp.is_export.present
    /\ D3 \in Range(extract_column_dates(inp.is_export.ws))

\* C10: the extension has added column F with the date 2024-06-30 and the
\* export's values of that date, and the dependent formula =D5-D4 of the
\* last formula column reads =E5-E4 in the new column.
C10_ExtensionShiftsDependentFormula ==
    ExtendedToThirdPeriod =>
        /\ Cell(Sheet(wb, loc.is_sheet), DATE_ROW, 6) = Str(D3)
        /\ \A r \in {12, 13} :
               Cell(Sheet(wb, loc.is_sheet), r, 6) = Cell(inp.is_export.ws, r, 6)
        /\ Cell(Sheet(loc.disk0, NCAV), 3, 5) = Str(<<"=", "D", "5", "-", "D", "4">>)
        /\ Cell(Sheet(wb, NCAV), 3, 6) = Str(<<"=", "E", "5", "-", "E", "4">>)

----------------------------------------------------------------------------
(* The reference rewriter on its own: a formula built from references,     *)
(* rewritten once.                                                          *)

MaxRefs == 2

\* the references a formula is built from: optional sheet qualifier,
\* optional $ before the column and before the row
RefSheets == {<<>>, <<"s">>}
RefColumns == {3, 4, 5}
RefRows == {<<"7">>}
RefItems ==
    [sheet : RefSheets, cabs : BOOLEAN, col : RefColumns, rabs : BOOLEAN, row : RefRows]
\* what joins two references: an operator, or the colon of a range
RefJoins == {"+", ":"}
ColumnPairs == {<<4, 5>>, <<3, 4>>}

RenderRef(r) ==
    (IF r.sheet = <<>> THEN <<>> ELSE r.sheet \o <<"!">>)
    \o (IF r.cabs THEN <<"$">> ELSE <<>>) \o get_column_letter(r.col)
    \o (IF r.rabs THEN <<"$">> ELSE <<>>) \o r.row

RECURSIVE RenderFrom(_, _, _)
RenderFrom(refs, joins, i) ==
    IF i > Len(refs) THEN <<>>
    ELSE (IF i = 1 THEN <<>> ELSE <<joins[i - 1]>>)
         \o RenderRef(refs[i]) \o RenderFrom(refs, joins, i + 1)

RenderFormula(refs, joins) == <<"=">> \o RenderFrom(refs, joins, 1)

RwInit ==
    /\ rp = RpIdle
    /\ unit = UnitIdle
    /\ UpdIdle
    /\ \E n \in 1..MaxRefs :
        \E refs \in [1..n -> RefItems], joins \in [1..(n - 1) -> RefJoins],
           p \in ColumnPairs :
            rw = [pc |-> "ready", refs |-> refs, joins |-> joins,
                  formula |-> RenderFormula(refs, joins),
                  source_col |-> p[1], target_col |-> p[2]]

RwAdjust ==
    /\ rw.pc = "ready"
    /\ rw' = [rw EXCEPT !.pc = "done",
                        !.formula = adjust_formula_column(rw.formula, rw.source_col,
                                                          rw.target_col)]
    /\ UNCHANGED <<rp, unit, updVars>>

RwNext == RwAdjust

SpecRewrite == RwInit /\ [][RwNext]_vars

\* C3: after the rewrite every reference carrying a $ before its column or
\* its row reads as before, range endpoints included; every reference
\* without a $ to the source column names the target column, with its row;
\* every reference to another column reads as before.
ExpectedRef(r, source_col, target_col) ==
    IF ~r.cabs /\ ~r.rabs /\ r.col = source_col THEN [r EXCEPT !.col = target_col] ELSE r

C3_AbsoluteKeptRelativeShifted ==
    rw.pc = "done" =>
        rw.formula =
            RenderFormula([i \in 1..Len(rw.refs) |->
                              ExpectedRef(rw.refs[i], rw.source_col, rw.target_col)],
                          rw.joins)

----------------------------------------------------------------------------
(* Full replace on its own: one existing sheet, two exports holding the    *)
(* same labelled rows at different row positions.                          *)

\* the row positions tried: the first two data rows and the last one
RpSlots == {START_ROW, START_ROW + 1, MAX_ROW}
RpPlacings == {p \in RpSlots \X RpSlots : p[1] # p[2]}

\* a sheet with the two labelled rows at the rows of placing p
RpSheet(p, first, second) ==
    SheetOf({<<CODE_ROW, 4, Str(<<"H", "1">>)>>, <<DATE_ROW, 4, Str(D1)>>,
             <<p[1], LABEL_COL, Str(<<"R", "e", "v">>)>>, <<p[1], 4, Num(first)>>,
             <<p[2], LABEL_COL, Str(<<"C", "o", "s", "t">>)>>, <<p[2], 4, Num(second)>>})

RpInit ==
    /\ rw = RwIdle
    /\ unit = UnitIdle
    /\ UpdIdle
    /\ \E e \in RpPlacings, a \in RpPlacings, b \in RpPlacings :
           /\ a # b
           /\ rp = [pc |-> "ready",
                    existing |-> RpSheet(e, <<"1">>, <<"2">>),
                    exportA |-> RpSheet(a, <<"5">>, <<"6">>),
                    exportB |-> RpSheet(b, <<"5">>, <<"6">>),
                    outA |-> EmptySheet, outB |-> EmptySheet]

\* the same existing sheet replaced from either export
RpReplace ==
    /\ rp.pc = "ready"
    /\ rp' = [rp EXCEPT
                 !.pc = "done",
                 !.outA = replace_all_raw_data(rp.existing, rp.exportA, "is", FALSE).ws,
                 !.outB = replace_all_raw_data(rp.existing, rp.exportB, "is", FALSE).ws]
    /\ UNCHANGED <<rw, unit, updVars>>

RpNext == RpReplace

SpecReplace == RpInit /\ [][RpNext]_vars

\* C9: two exports holding the same labelled rows at different row
\* positions within rows 12-60 leave the existing sheet with the same cell
\* values after a full replace.
C9_ReplaceIgnoresRowOrder == rp.pc = "done" => rp.outA = rp.outB

----------------------------------------------------------------------------
(* rename_sheets_and_update_references on its own: a workbook of two       *)
(* raw-data sheets and a third sheet whose formula refers to both.          *)

RnIsTitles == {<<"a", "c", "m", "e", "_", "i", "s">>, <<"a", "c", "m", "e", "_", "I", "S">>, <<"A", "c", "m", "e", "_", "I", "s">>}
RnBsTitles == {<<"a", "c", "m", "e", "_", "b", "s">>, <<"A", "C", "M", "E", "_", "B", "S">>}
\* how the formula writes the two sheet names
RnIsRefs == {<<"a", "c", "m", "e", "_", "i", "s">>, <<"a", "c", "m", "e", "_", "I", "S">>, <<"A", "C", "M", "E", "_", "I", "S">>}
RnBsRefs == {<<"a", "c", "m", "e", "_", "b", "s">>, <<"A", "C", "M", "E", "_", "B", "S">>, <<"A", "c", "m", "e", "_", "B", "s">>}
RnOldPrefixes == {<<"a", "c", "m", "e">>, <<"A", "c", "m", "e">>, <<"z", "e", "d">>}
RnNewPrefixes == {<<"a", "c", "m", "e", "2">>, <<"b">>}

\* =<is>!D5/<bs>!D10
RnFormula(is_ref, bs_ref) ==
    <<"=">> \o is_ref \o <<"!", "D", "5", "/">> \o bs_ref \o <<"!", "D", "1", "0">>

RnWorkbook(is_title, bs_title, is_ref, bs_ref) ==
    <<[title |-> is_title, cells |-> ExistingIS],
      [title |-> bs_title, cells |-> ExistingBS],
      [title |-> RO, cells |-> SheetOf({<<2, 3, Str(RnFormula(is_ref, bs_ref))>>})]>>

RnInit ==
    /\ rw = RwIdle
    /\ rp = RpIdle
    /\ UpdIdle
    /\ \E it \in RnIsTitles, bt \in RnBsTitles, ir \in RnIsRefs, br \in RnBsRefs,
          o \in RnOldPrefixes, n \in RnNewPrefixes, d \in BOOLEAN :
           unit = [pc |-> "rename", workbook |-> RnWorkbook(it, bt, ir, br),
                   before |-> RnWorkbook(it, bt, ir, br),
                   is_ref |-> ir, bs_ref |-> br,
                   old_prefix |-> o, new_prefix |-> n, dry_run |-> d,
                   sheets_renamed |-> 0, formulas_updated |-> 0]

\* the call up to the end of its first loop: the rename map is built (no
\* match returns 0, 0) and the formulas of every sheet are rewritten
RnUpdateReferences ==
    /\ unit.pc = "rename"
    /\ \E rename_map \in {RenameMap(unit.workbook, unit.old_prefix, unit.new_prefix)} :
           IF rename_map = <<>>
           THEN unit' = [unit EXCEPT !.pc = "renamed"]
           ELSE unit' = [unit EXCEPT
                            !.pc = "titles",
                            !.workbook = IF unit.dry_run THEN @
                                         ELSE UpdateFormulaReferences(@, rename_map),
                            !.formulas_updated =
                                FormulasUpdated(unit.workbook, rename_map, 1)]
    /\ UNCHANGED <<rw, rp, updVars>>

\* the second loop and the return: the sheets get their new titles
RnRenameSheets ==
    /\ unit.pc = "titles"
    /\ \E rename_map \in {RenameMap(unit.before, unit.old_prefix, unit.new_prefix)} :
           unit' = [unit EXCEPT
                       !.pc = "renamed",
                       !.workbook = IF unit.dry_run THEN @ ELSE RenameSheets(@, rename_map),
                       !.sheets_renamed = Len(rename_map)]
    /\ UNCHANGED <<rw, rp, updVars>>

RnNext == RnUpdateReferences \/ RnRenameSheets

SpecRename == RnInit /\ [][RnNext]_vars

\* the call made was the scenario's: prefix acme to be renamed acme2, sheets
\* acme_is and acme_bs, the formula =acme_is!D5/acme_bs!D10
RnScenario ==
    /\ unit.before = RnWorkbook(<<"a", "c", "m", "e", "_", "i", "s">>, <<"a", "c", "m", "e", "_", "b", "s">>, <<"a", "c", "m", "e", "_", "i", "s">>, <<"a", "c", "m", "e", "_", "b", "s">>)
    /\ unit.old_prefix = <<"a", "c", "m", "e">>
    /\ unit.new_prefix = <<"a", "c", "m", "e", "2">>
    /\ ~unit.dry_run

\* C11: renaming prefix acme to acme2 in the workbook of sheets acme_is and
\* acme_bs and a third sheet holding =acme_is!D5/acme_bs!D10 leaves sheets
\* titled acme2_IS and acme2_bs, the formula =acme2_IS!D5/acme2_bs!D10,
\* 2 sheets renamed and 1 formula rewritten, and find_sheets then finds
\* both renamed sheets.
C11_RenameScenario ==
    unit.pc = "renamed" /\ RnScenario =>
        /\ SheetNames(unit.workbook) = <<<<"a", "c", "m", "e", "2", "_", "I", "S">>, <<"a", "c", "m", "e", "2", "_", "b", "s">>, RO>>
        /\ unit.workbook[3].cells[<<2, 3>>] = Str(RnFormula(<<"a", "c", "m", "e", "2", "_", "I", "S">>, <<"a", "c", "m", "e", "2", "_", "b", "s">>))
        /\ unit.sheets_renamed = 2
        /\ unit.formulas_updated = 1
        /\ find_sheets(unit.workbook) =
               [is_sheet |-> <<"a", "c", "m", "e", "2", "_", "I", "S">>, bs_sheet |-> <<"a", "c", "m", "e", "2", "_", "b", "s">>]

C11_Witness == unit.pc = "renamed" /\ RnScenario

\* the formula refers to the sheet of that name, in whatever letter case
RefersTo(formula, name) ==
    \E i \in 1..Len(formula) :
        /\ StartsAt(LowerText(formula), i, LowerText(name) \o <<"!">>)
        /\ i = 1 \/ formula[i - 1] \notin Word

\* the titles the call renames
RnOldNames ==
    {unit.before[i].title : i \in 1..Len(unit.before)}
    \ {unit.before[i].title : i \in {j \in 1..Len(unit.before) :
          RenameMap(<<unit.before[j]>>, unit.old_prefix, unit.new_prefix) = <<>>}}

RnNoReferenceLeft ==
    \A i \in 1..Len(unit.workbook) :
        \A k \in DOMAIN unit.workbook[i].cells :
            is_formula(unit.workbook[i].cells[k]) =>
                \A name \in RnOldNames : ~RefersTo(unit.workbook[i].cells[k].s, name)

\* C12: after a real rename no formula of any sheet refers to an old
\* raw-data sheet name followed by '!', in whatever letter case the
\* reference was written; the formulas are rewritten while every sheet still
\* has its old title.
C12_NoReferenceToOldNames ==
    /\ unit.pc = "titles" /\ ~unit.dry_run =>
           /\ SheetNames(unit.workbook) = SheetNames(unit.before)
           /\ RnNoReferenceLeft
    /\ unit.pc = "renamed" /\ ~unit.dry_run /\ unit.sheets_renamed > 0 =>
           RnNoReferenceLeft

\* the same, for references written as the sheet is titled or in lower case
C12_ExactOrLowerCaseReferences ==
    /\ unit.pc \in {"titles", "renamed"}
    /\ unit.is_ref \in {unit.before[1].title, LowerText(unit.before[1].title)}
    /\ unit.bs_ref \in {unit.before[2].title, LowerText(unit.before[2].title)}
    => C12_NoReferenceToOldNames

----------------------------------------------------------------------------
(* netnet_validator.py: generate_diff_report, and the report on its own    *)

\* the pairs gone wrong: a date of the export is taken at its first column
DiffPairs_FirstExportColumn(existing_dates, export_dates) ==
    LET firsts == FirstCols(existing_dates)
        matched == SelectSeq(firsts,
                             LAMBDA c : ColsOfDate(export_dates, existing_dates[c]) # {})
    IN  [i \in 1..Len(matched) |->
            [date |-> existing_dates[matched[i]],
             existing_col |-> Max(ColsOfDate(existing_dates, existing_dates[matched[i]])),
             export_col |-> Min(ColsOfDate(export_dates, existing_dates[matched[i]]))]]

\* `for date in date_to_existing_col: if date in date_to_export_col`: the
\* dates present on both sides, in the order of the existing sheet, each
\* with the column the two dicts hold for it (its last column)
DiffPairs(existing_dates, export_dates) ==
    LET firsts == FirstCols(existing_dates)
        matched == SelectSeq(firsts,
                             LAMBDA c : ColsOfDate(export_dates, existing_dates[c]) # {})
    IN  [i \in 1..Len(matched) |->
            [date |-> existing_dates[matched[i]],
             existing_col |-> Max(ColsOfDate(existing_dates, existing_dates[matched[i]])),
             export_col |-> Max(ColsOfDate(export_dates, existing_dates[matched[i]]))]]

\* "Find new periods": the dates of the export absent from the sheet
DiffNewPeriods(existing_dates, export_dates, export_ws) ==
    LET firsts == SelectSeq(FirstCols(export_dates),
                            LAMBDA c : ColsOfDate(existing_dates, export_dates[c]) = {})
    IN  [i \in 1..Len(firsts) |->
            [date |-> export_dates[firsts[i]],
             period_code |->
                 Cell(export_ws, CODE_ROW, Max(ColsOfDate(export_dates, export_dates[firsts[i]]))),
             export_col |-> Max(ColsOfDate(export_dates, export_dates[firsts[i]]))]]

\* the block generate_diff_report runs for one raw-data sheet and its export
DiffSheet(existing_ws, export_ws) ==
    LET row_labels == extract_row_labels(existing_ws)
        rows == Sorted(DOMAIN row_labels)
        change(p, row) ==
            IF NormalizedStr(Cell(existing_ws, row, p.existing_col))
                   # NormalizedStr(Cell(export_ws, row, p.export_col))
            THEN <<[row |-> row, col |-> p.existing_col,
                    col_letter |-> get_column_letter(p.existing_col),
                    date |-> p.date, label |-> row_labels[row],
                    old_value |-> Cell(existing_ws, row, p.existing_col),
                    new_value |-> Cell(export_ws, row, p.export_col)]>>
            ELSE <<>>
        Changes(pairs) ==
            Flatten([i \in 1..Len(pairs) |->
                        Flatten([j \in 1..Len(rows) |-> change(pairs[i], rows[j])])])
    IN  [changes |-> Changes(DiffPairs(extract_column_dates(existing_ws),
                                       extract_column_dates(export_ws))),
         new_periods |-> DiffNewPeriods(extract_column_dates(existing_ws),
                                        extract_column_dates(export_ws), export_ws)]

\* generate_diff_report(workbook_path, is_export_path, bs_export_path)
generate_diff_report(book, is_export, bs_export) ==
    LET none == [changes |-> <<>>, new_periods |-> <<>>]
        Report(is_diff, bs_diff) ==
            [is_changes |-> is_diff.changes, bs_changes |-> bs_diff.changes,
             new_is_periods |-> is_diff.new_periods,
             new_bs_periods |-> bs_diff.new_periods,
             summary |-> [income_statement_changes |-> Len(is_diff.changes),
                          balance_sheet_changes |-> Len(bs_diff.changes),
                          new_is_periods |-> Len(is_diff.new_periods),
                          new_bs_periods |-> Len(bs_diff.new_periods)]]
    IN  Report(IF is_export.present /\ find_sheets(book).is_sheet # <<>>
               THEN DiffSheet(Sheet(book, find_sheets(book).is_sheet), is_export.ws)
               ELSE none,
               IF bs_export.present /\ find_sheets(book).bs_sheet # <<>>
               THEN DiffSheet(Sheet(book, find_sheets(book).bs_sheet), bs_export.ws)
               ELSE none)

\* an income statement sheet: ExistingIS, with the date of column D also
\* in column E or not, and with the date of column D as text or as a datetime
DfIsSheet(repeated, as_datetime) ==
    Overlay(ExistingIS,
            SheetOf({<<DATE_ROW, 4, [k |-> IF as_datetime THEN "d" ELSE "s", s |-> D1]>>,
                     <<DATE_ROW, 5, Str(IF repeated THEN D1 ELSE D2)>>}))

DfExportKinds == {"own", "elsewhere", "changed", "more"}

\* an export made from a raw-data sheet: the sheet itself; the sheet with
\* other period codes, another label text, a value in an unlabelled row and
\* its first date written as text; the sheet with one labelled value
\* changed; the sheet with one more period
DfExport(ws, kind) ==
    [present |-> TRUE, parts |-> <<>>,
     ws |-> CASE kind = "own" -> ws
              [] kind = "elsewhere" ->
                    Overlay(ws, SheetOf({<<CODE_ROW, 4, Str(<<"Q", "1">>)>>,
                                         <<DATE_ROW, 4, Str(D1)>>,
                                         <<START_ROW, LABEL_COL, Str(<<"R", "e", "v", "s">>)>>,
                                         <<START_ROW + 2, 4, Num(<<"8">>)>>}))
              [] kind = "changed" -> Put(ws, START_ROW, 5, Num(<<"7">>))
              [] kind = "more" ->
                    Overlay(ws, SheetOf({<<CODE_ROW, 6, Str(<<"H", "3">>)>>,
                                         <<DATE_ROW, 6, Str(D3)>>,
                                         <<START_ROW, 6, Num(<<"3">>)>>}))]

DfInit ==
    /\ rw = RwIdle
    /\ rp = RpIdle
    /\ UpdIdle
    /\ \E title \in IsTitles, repeated \in BOOLEAN, as_datetime \in BOOLEAN,
          ik \in DfExportKinds \cup {"none"}, bk \in DfExportKinds \cup {"none"} :
           unit = [pc |-> "diff",
                   workbook |-> <<[title |-> title,
                                   cells |-> DfIsSheet(repeated, as_datetime)],
                                  [title |-> <<"a", "_", "b", "s">>, cells |-> ExistingBS]>>,
                   is_export |-> IF ik = "none" THEN NoExport
                                 ELSE DfExport(DfIsSheet(repeated, as_datetime), ik),
                   bs_export |-> IF bk = "none" THEN NoExport
                                 ELSE DfExport(ExistingBS, bk),
                   report |-> <<>>]

\* one call of generate_diff_report
DfReport ==
    /\ unit.pc = "diff"
    /\ unit' = [unit EXCEPT
                   !.pc = "diffed",
                   !.report = generate_diff_report(unit.workbook, unit.is_export,
                                                   unit.bs_export)]
    /\ UNCHANGED <<rw, rp, updVars>>

DfNext == DfReport

SpecDiff == DfInit /\ [][DfNext]_vars

\* the export holds the sheet's own raw data: the same period dates, and
\* the same contents in every cell of the sheet's labelled rows
SameRawData(existing_ws, export) ==
    export.present =>
        /\ extract_column_dates(export.ws) = extract_column_dates(existing_ws)
        /\ \A r \in DOMAIN extract_row_labels(existing_ws), c \in START_COL..MAX_COL :
               Cell(export.ws, r, c) = Cell(existing_ws, r, c)

\* C13: the diff report of a workbook against exports that hold its own
\* current raw data (same period dates, same contents in the labelled rows)
\* lists no change and no new period for either sheet, and its summary
\* counts are all 0, also with a date repeated in two columns and with
\* formula cells in the labelled rows.
C13_DiffOfOwnDataIsEmpty ==
    /\ unit.pc = "diffed"
    /\ SameRawData(unit.workbook[1].cells, unit.is_export)
    /\ SameRawData(unit.workbook[2].cells, unit.bs_export)
    => /\ unit.report.is_changes = <<>> /\ unit.report.bs_changes = <<>>
       /\ unit.report.new_is_periods = <<>> /\ unit.report.new_bs_periods = <<>>
       /\ unit.report.summary =
              [income_statement_changes |-> 0, balance_sheet_changes |-> 0,
               new_is_periods |-> 0, new_bs_periods |-> 0]

\* both exports were given and hold the workbook's own data without being
\* copies of its sheets; the income statement sheet is found, repeats a
\* date and holds a formula in a labelled row
C13_Witness ==
    /\ unit.pc = "diffed"
    /\ unit.is_export.present /\ unit.bs_export.present
    /\ SameRawData(unit.workbook[1].cells, unit.is_export)
    /\ SameRawData(unit.workbook[2].cells, unit.bs_export)
    /\ unit.is_export.ws # unit.workbook[1].cells
    /\ find_sheets(unit.workbook).is_sheet # <<>>
    /\ Cell(unit.workbook[1].cells, DATE_ROW, 4).s = Cell(unit.workbook[1].cells, DATE_ROW, 5).s
    /\ is_formula(Cell(unit.workbook[1].cells, START_ROW, 4))

----------------------------------------------------------------------------
(* The extractors on their own: a structure's row labels and column dates  *)
(* written into an empty sheet and extracted again.                         *)

\* rows and columns tried: the first and the last the extractors read, and
\* the one after the last
ExRows == {START_ROW, MAX_ROW, MAX_ROW + 1}
ExCols == {START_COL, MAX_COL, MAX_COL + 1}
ExLabels == {<<"R", "e", "v">>, <<"N", "e", "t", " ", "I", "n", "c", "o", "m", "e">>, <<" ", "R", "e", "v">>}
ExDates == {D1, D2}

\* the maps from some of the keys to the values
SomeMaps(keys, values) == UNION {[S -> values] : S \in SUBSET keys}

\* the labels go to column C, the dates to row 10
WriteStructure(ws, row_labels, column_dates) ==
    Overlay(ws,
            Overlay([k \in {<<r, LABEL_COL>> : r \in DOMAIN row_labels} |->
                        Str(row_labels[k[1]])],
                    [k \in {<<DATE_ROW, c>> : c \in DOMAIN column_dates} |->
                        Str(column_dates[k[2]])]))

ExInit ==
    /\ rw = RwIdle
    /\ rp = RpIdle
    /\ UpdIdle
    /\ \E row_labels \in SomeMaps(ExRows, ExLabels),
          column_dates \in SomeMaps(ExCols, ExDates) :
           unit = [pc |-> "write", row_labels |-> row_labels,
                   column_dates |-> column_dates,
                   sheet |-> EmptySheet, written |-> EmptySheet,
                   labels_out |-> <<>>, dates_out |-> <<>>]

ExWrite ==
    /\ unit.pc = "write"
    /\ unit' = [unit EXCEPT
                   !.pc = "extract",
                   !.sheet = WriteStructure(@, unit.row_labels, unit.column_dates),
                   !.written = WriteStructure(@, unit.row_labels, unit.column_dates)]
    /\ UNCHANGED <<rw, rp, updVars>>

\* extract_row_labels and extract_column_dates called on the sheet; neither
\* assigns to a cell
ExExtract ==
    /\ unit.pc = "extract"
    /\ unit' = [unit EXCEPT !.pc = "extracted",
                            !.labels_out = extract_row_labels(unit.sheet),
                            !.dates_out = extract_column_dates(unit.sheet)]
    /\ UNCHANGED <<rw, rp, updVars>>

ExNext == ExWrite \/ ExExtract

SpecExtract == ExInit /\ [][ExNext]_vars

\* rows in 12-60 with non-empty trimmed labels, columns in D..50 with
\* non-empty dates
ExWithinLayout ==
    /\ \A r \in DOMAIN unit.row_labels :
           /\ START_ROW <= r /\ r <= MAX_ROW
           /\ unit.row_labels[r] # <<>>
           /\ Strip(unit.row_labels[r]) = unit.row_labels[r]
    /\ \A c \in DOMAIN unit.column_dates :
           /\ START_COL <= c /\ c <= MAX_COL
           /\ unit.column_dates[c] # <<>>

\* C14: row labels (rows 12-60, non-empty, trimmed) and column dates
\* (columns D to 50, non-empty ISO texts) written into an empty sheet are
\* extracted again as the very same two maps, and the sheet is as written.
C14_ExtractionRoundTrip ==
    unit.pc = "extracted" /\ ExWithinLayout =>
        /\ unit.labels_out = unit.row_labels
        /\ unit.dates_out = unit.column_dates
        /\ unit.sheet = unit.written

\* a structure filling the layout to its last row and last column
C14_Witness ==
    /\ unit.pc = "extracted" /\ ExWithinLayout
    /\ DOMAIN unit.row_labels = {START_ROW, MAX_ROW}
    /\ DOMAIN unit.column_dates = {START_COL, MAX_COL}

----------------------------------------------------------------------------
(* validate_export_against_structure on its own: an expected structure and *)
(* an export sheet.                                                         *)

VdExpectedRows == {START_ROW, START_ROW + 1}
VdExportRows == {START_ROW, START_ROW + 1, START_ROW + 2}
VdExpectedLabels == {<<"R", "e", "v">>, <<"C", "o", "s", "t">>}
\* labels of the export: as expected, in another letter case, with a blank
\* before
VdExportLabels == {<<"R", "e", "v">>, <<"r", "e", "v">>, <<" ", "R", "e", "v">>}
VdCols == {START_COL, START_COL + 1}
VdExpectedDates == {D1}
VdExportDates == {D1, D3}
VdSheetTypes == {"is", "bs"}

\* a WorkbookStructure holding the maps for one sheet type, nothing for
\* the other
VdStructure(sheet_type, row_labels, column_dates) ==
    LET nothing == [k \in {} |-> <<>>]
    IN  [is_sheet_name |-> <<>>, bs_sheet_name |-> <<>>,
         is_row_labels |-> IF sheet_type = "is" THEN row_labels ELSE nothing,
         is_column_dates |-> IF sheet_type = "is" THEN column_dates ELSE nothing,
         is_period_codes |-> nothing,
         bs_row_labels |-> IF sheet_type = "bs" THEN row_labels ELSE nothing,
         bs_column_dates |-> IF sheet_type = "bs" THEN column_dates ELSE nothing,
         bs_period_codes |-> nothing]

VdInit ==
    /\ rw = RwIdle
    /\ rp = RpIdle
    /\ UpdIdle
    /\ \E sheet_type \in VdSheetTypes,
          expected_labels \in SomeMaps(VdExpectedRows, VdExpectedLabels),
          expected_dates \in SomeMaps(VdCols, VdExpectedDates),
          export_labels \in SomeMaps(VdExportRows, VdExportLabels),
          export_dates \in SomeMaps(VdCols, VdExportDates) :
           unit = [pc |-> "validate", sheet_type |-> sheet_type,
                   expected_labels |-> expected_labels,
                   expected_dates |-> expected_dates,
                   structure |-> VdStructure(sheet_type, expected_labels, expected_dates),
                   export_ws |-> WriteStructure(EmptySheet, export_labels, export_dates),
                   validation |-> <<>>]

\* one call of validate_export_against_structure
VdValidate ==
    /\ unit.pc = "validate"
    /\ unit' = [unit EXCEPT
                   !.pc = "validated",
                   !.validation = validate_export_against_structure(
                                      unit.structure, unit.export_ws, unit.sheet_type)]
    /\ UNCHANGED <<rw, rp, updVars>>

VdNext == VdValidate

SpecValidate == VdInit /\ [][VdNext]_vars

\* some expected row is missing from the export's row labels, or has
\* another label there
VdRowMissingOrDifferent ==
    \E r \in DOMAIN unit.expected_labels :
        \/ r \notin DOMAIN extract_row_labels(unit.export_ws)
        \/ extract_row_labels(unit.export_ws)[r] # unit.expected_labels[r]

VdRowsOnlyInExport ==
    DOMAIN extract_row_labels(unit.export_ws) \ DOMAIN unit.expected_labels

VdNewDates ==
    Range(extract_column_dates(unit.export_ws)) \ Range(unit.expected_dates)

VdRemovedDates ==
    Range(unit.expected_dates) \ Range(extract_column_dates(unit.export_ws))

----------------------------------------------------------------------------
(* netnet_autoscore.py: WorkbookEvaluator.  A float is modelled as the     *)
(* fraction <<numerator, denominator>> in lowest terms with a positive     *)
(* denominator (arithmetic is exact); <<>> stands for None.                *)

Abs(n) == IF n < 0 THEN -n ELSE n

RECURSIVE Gcd(_, _)
Gcd(a, b) == IF b = 0 THEN a ELSE Gcd(b, a % b)

\* the float n / d, for d # 0
Float(n, d) ==
    LET g == Gcd(Abs(n), Abs(d))
    IN  IF d < 0 THEN <<(-n) \div g, (-d) \div g>> ELSE <<n \div g, d \div g>>

FloatAdd(a, b) == Float(a[1] * b[2] + b[1] * a[2], a[2] * b[2])
FloatSub(a, b) == Float(a[1] * b[2] - b[1] * a[2], a[2] * b[2])
FloatMul(a, b) == Float(a[1] * b[1], a[2] * b[2])
\* a / b for b # 0
FloatDiv(a, b) == Float(a[1] * b[2], a[2] * b[1])
Zero == Float(0, 1)

RECURSIVE Pow10(_)
Pow10(k) == IF k = 0 THEN 1 ELSE 10 * Pow10(k - 1)

DigitValue(c) == CHOOSE n \in 0..9 : IntText(n) = <<c>>

\* int() of a run of digits
RECURSIVE DigitsValue(_)
DigitsValue(t) ==
    IF t = <<>> THEN 0
    ELSE 10 * DigitsValue(SubSeq(t, 1, Len(t) - 1)) + DigitValue(t[Len(t)])

\* float(text) of a str: blanks around, a sign, digits with at most one
\* point and at least one digit; <<>> where float() raises ValueError.
\* (Exponents, inf, nan and underscores are not in the texts tried.)
ParseFloat(text) ==
    LET Body(sign, b) ==
            LET ip == RunLen(b, 1, Digit)
                dot == ip < Len(b) /\ b[ip + 1] = "."
                fp == IF dot THEN RunLen(b, ip + 2, Digit) ELSE 0
            IN  IF ip + fp >= 1 /\ ip + (IF dot THEN 1 + fp ELSE 0) = Len(b)
                THEN Float(sign * (DigitsValue(SubSeq(b, 1, ip)) * Pow10(fp)
                                   + DigitsValue(SubSeq(b, ip + 2, ip + 1 + fp))),
                           Pow10(fp))
                ELSE <<>>
        Signed(u) ==
            IF u # <<>> /\ Head(u) = "-" THEN Body(-1, Tail(u))
            ELSE IF u # <<>> /\ Head(u) = "+" THEN Body(1, Tail(u))
            ELSE Body(1, u)
    IN  Signed(Strip(text))

\* str.replace(c, '') for one character
Remove(text, c) == SelectSeq(text, LAMBDA x : x # c)

\* _parse_value gone wrong: a percentage is not converted to a decimal
_parse_value_PercentKept(val) ==
    IF val = None \/ (IsStr(val) /\ val.s \in {<<>>, <<"N", "A">>, <<"-">>}) THEN <<>>
    ELSE IF val.k = "n" THEN ParseFloat(val.s)
    ELSE IF IsStr(val) THEN ParseFloat(Strip(Remove(Remove(val.s, "%"), ",")))
    ELSE <<>>

\* WorkbookEvaluator._parse_value
_parse_value(val) ==
    LET Scaled(percent, parsed) ==
            IF parsed = <<>> THEN <<>>
            ELSE IF percent THEN FloatDiv(parsed, Float(100, 1))
            ELSE parsed
    IN  IF val = None \/ (IsStr(val) /\ val.s \in {<<>>, <<"N", "A">>, <<"-">>}) THEN <<>>
        ELSE IF val.k = "n" THEN ParseFloat(val.s)
        ELSE IF IsStr(val)
        THEN Scaled("%" \in Range(val.s),
                    ParseFloat(Strip(Remove(Remove(val.s, "%"), ","))))
        ELSE <<>>

----------------------------------------------------------------------------
(* WorkbookEvaluator.evaluate_cell and the functions it calls.  A call      *)
(* yields the value returned (<<>> for None) or the exception raised, and   *)
(* the cache as the call leaves it; `depth` counts the Python frames in use *)
(* when the call is made.                                                   *)

\* the frames Python allows before it raises RecursionError
RecursionLimit == 12

Returned(v, cache) == [raised |-> "", v |-> v, cache |-> cache]
Raised(exc, cache) == [raised |-> exc, v |-> <<>>, cache |-> cache]

\* openpyxl.utils.column_index_from_string, for up to three letters
RECURSIVE column_index_from_string(_)
column_index_from_string(letters) ==
    IF letters = <<>> THEN 0
    ELSE 26 * column_index_from_string(SubSeq(letters, 1, Len(letters) - 1))
         + (CHOOSE i \in 1..26 : UpperLetters[i] = letters[Len(letters)])

\* [A-Z]+\d+ at position i: the length matched, 0 for no match
RefLen(t, i) ==
    LET Then(letters) ==
            IF letters = 0 \/ RunLen(t, i + letters, Digit) = 0 THEN 0
            ELSE letters + RunLen(t, i + letters, Digit)
    IN  Then(RunLen(t, i, Upper))

\* \d+\.?\d* at position i: the length matched, 0 for no match
ConstLen(t, i) ==
    LET Then(digits) ==
            IF digits = 0 THEN 0
            ELSE IF i + digits <= Len(t) /\ t[i + digits] = "."
            THEN digits + 1 + RunLen(t, i + digits + 1, Digit)
            ELSE digits
    IN  Then(RunLen(t, i, Digit))

\* the position of the first c in t from position i on, 0 if there is none
RECURSIVE FirstIndex(_, _, _)
FirstIndex(t, c, i) ==
    IF i > Len(t) THEN 0 ELSE IF t[i] = c THEN i ELSE FirstIndex(t, c, i + 1)

\* re.match(name + r'\(([^)]+)\)', formula): the group, <<>> for no match.
\* The match is of a prefix: what follows the closing bracket is not looked at.
CallArgument(formula, name) ==
    LET Upto(close) ==
            IF close > Len(name) + 2
            THEN SubSeq(formula, Len(name) + 2, close - 1) ELSE <<>>
    IN  IF StartsAt(formula, 1, name \o <<"(">>)
        THEN Upto(FirstIndex(formula, ")", Len(name) + 2))
        ELSE <<>>

\* the column and the row of a text matching ^([A-Z]+)(\d+)$
RefColumn(ref) == column_index_from_string(SubSeq(ref, 1, RunLen(ref, 1, Upper)))
RefRow(ref) == DigitsValue(SubSeq(ref, RunLen(ref, 1, Upper) + 1, Len(ref)))

\* str.strip("'")
RECURSIVE StripQuotes(_)
StripQuotes(t) ==
    IF t # <<>> /\ Head(t) = "'" THEN StripQuotes(Tail(t))
    ELSE IF t # <<>> /\ t[Len(t)] = "'" THEN StripQuotes(SubSeq(t, 1, Len(t) - 1))
    ELSE t

NUMBERVALUE == <<"_", "x", "l", "f", "n", ".", "N", "U", "M", "B", "E", "R", "V", "A", "L", "U", "E">>
AVERAGE == <<"A", "V", "E", "R", "A", "G", "E">>

\* str.split('!') unpacked into two names: the text before and after the one '!'
BeforeBang(ref) == SubSeq(ref, 1, FirstIndex(ref, "!", 1) - 1)
AfterBang(ref) == SubSeq(ref, FirstIndex(ref, "!", 1) + 1, Len(ref))

\* ^([A-Z]+)(\d+)$
IsCellRef(t) == RefLen(t, 1) > 0 /\ RefLen(t, 1) = Len(t)

\* self._cache[cache_key] = result
CachePut(cache, key, v) ==
    [k \in DOMAIN cache \cup {key} |-> IF k = key THEN v ELSE cache[k]]

\* range(row1, row2 + 1) x range(col1_idx, col2_idx + 1), in the order of the loops
RangeCells(row1, row2, col1, col2) ==
    IF row2 < row1 \/ col2 < col1 THEN <<>>
    ELSE [i \in 1..((row2 - row1 + 1) * (col2 - col1 + 1)) |->
             <<row1 + ((i - 1) \div (col2 - col1 + 1)),
               col1 + ((i - 1) % (col2 - col1 + 1))>>]

\* sum(values)
RECURSIVE FloatSum(_)
FloatSum(values) ==
    IF values = <<>> THEN Zero ELSE FloatAdd(Head(values), FloatSum(Tail(values)))

RECURSIVE evaluate_cell(_, _, _, _, _, _)
RECURSIVE _evaluate_formula(_, _, _, _, _)
RECURSIVE _resolve_reference(_, _, _, _, _)
RECURSIVE _evaluate_average(_, _, _, _, _)
RECURSIVE AverageOver(_, _, _, _, _, _)

\* the cell at a reference text matching ^([A-Z]+)(\d+)$; column_index_from_string
\* raises ValueError beyond three letters and ws.cell raises it for row 0
CellAt(book, cache, sheet_name, ref, depth) ==
    IF RunLen(ref, 1, Upper) > 3 THEN Raised("ValueError", cache)
    ELSE evaluate_cell(book, cache, sheet_name, RefRow(ref), RefColumn(ref), depth)

evaluate_cell(book, cache, sheet_name, row, col, depth) ==
    LET cache_key == <<sheet_name, row, col>>
        Store(r) ==
            IF r.raised # "" THEN r
            ELSE Returned(r.v, CachePut(r.cache, cache_key, r.v))
        Value(cell_value) ==
            IF cell_value = None THEN Returned(<<>>, cache)
            ELSE IF is_formula(cell_value)
            THEN Store(_evaluate_formula(book, cache, cell_value.s, sheet_name, depth + 1))
            ELSE Store(Returned(_parse_value(cell_value), cache))
    IN  IF depth >= RecursionLimit THEN Raised("RecursionError", cache)
        ELSE IF cache_key \in DOMAIN cache THEN Returned(cache[cache_key], cache)
        ELSE IF ~HasSheet(book, sheet_name) THEN Raised("KeyError", cache)
        ELSE IF row < 1 THEN Raised("ValueError", cache)
        ELSE Value(Cell(Sheet(book, sheet_name), row, col))

_evaluate_formula(book, cache, text, current_sheet, depth) ==
    LET formula == Tail(text)
        Resolve(ref, ch) == _resolve_reference(book, ch, ref, current_sheet, depth + 1)
        Times(r, const) ==
            IF r.raised # "" \/ r.v = <<>> THEN r
            ELSE Returned(FloatMul(r.v, ParseFloat(const)), r.cache)
        TimesOver(val1, const, r2) ==
            IF r2.raised # "" THEN r2
            ELSE IF val1 = <<>> \/ r2.v = <<>> \/ r2.v = Zero THEN Returned(<<>>, r2.cache)
            ELSE Returned(FloatDiv(FloatMul(val1, ParseFloat(const)), r2.v), r2.cache)
        Arith(val1, op, r2) ==
            IF r2.raised # "" THEN r2
            ELSE IF val1 = <<>> \/ r2.v = <<>> THEN Returned(<<>>, r2.cache)
            ELSE IF op = "-" THEN Returned(FloatSub(val1, r2.v), r2.cache)
            ELSE IF op = "+" THEN Returned(FloatAdd(val1, r2.v), r2.cache)
            ELSE IF op = "*" THEN Returned(FloatMul(val1, r2.v), r2.cache)
            ELSE IF r2.v # Zero THEN Returned(FloatDiv(val1, r2.v), r2.cache)
            ELSE Returned(<<>>, r2.cache)
        ConstDiv(r1, const, ref2) ==
            IF r1.raised # "" THEN r1 ELSE TimesOver(r1.v, const, Resolve(ref2, r1.cache))
        Binary(r1, op, ref2) ==
            IF r1.raised # "" THEN r1 ELSE Arith(r1.v, op, Resolve(ref2, r1.cache))
        Shapes(n1, c) ==
            IF n1 > 0 /\ n1 < Len(formula) /\ formula[n1 + 1] = "*"
               /\ c > 0 /\ n1 + 1 + c = Len(formula)
            THEN Times(Resolve(SubSeq(formula, 1, n1), cache),
                       SubSeq(formula, n1 + 2, n1 + 1 + c))
            ELSE IF n1 > 0 /\ n1 < Len(formula) /\ formula[n1 + 1] = "*"
                    /\ c > 0 /\ n1 + 2 + c <= Len(formula) /\ formula[n1 + 2 + c] = "/"
                    /\ RefLen(formula, n1 + c + 3) > 0
                    /\ n1 + c + 2 + RefLen(formula, n1 + c + 3) = Len(formula)
            THEN ConstDiv(Resolve(SubSeq(formula, 1, n1), cache),
                          SubSeq(formula, n1 + 2, n1 + 1 + c),
                          SubSeq(formula, n1 + c + 3, Len(formula)))
            ELSE IF n1 > 0 /\ n1 < Len(formula) /\ formula[n1 + 1] \in {"-", "+", "*", "/"}
                    /\ RefLen(formula, n1 + 2) > 0
                    /\ n1 + 1 + RefLen(formula, n1 + 2) = Len(formula)
            THEN Binary(Resolve(SubSeq(formula, 1, n1), cache), formula[n1 + 1],
                        SubSeq(formula, n1 + 2, Len(formula)))
            ELSE IF CallArgument(formula, AVERAGE) # <<>>
            THEN _evaluate_average(book, cache, CallArgument(formula, AVERAGE),
                                   current_sheet, depth + 1)
            ELSE Returned(<<>>, cache)
    IN  IF depth >= RecursionLimit THEN Raised("RecursionError", cache)
        ELSE IF CallArgument(formula, NUMBERVALUE) # <<>>
        THEN Resolve(CallArgument(formula, NUMBERVALUE), cache)
        ELSE IF IsCellRef(formula)
        THEN CellAt(book, cache, current_sheet, formula, depth + 1)
        ELSE Shapes(RefLen(formula, 1), ConstLen(formula, RefLen(formula, 1) + 2))

_resolve_reference(book, cache, ref, current_sheet, depth) ==
    LET Target(sheet_name, cell_ref) ==
            IF IsCellRef(cell_ref)
            THEN CellAt(book, cache, sheet_name, cell_ref, depth + 1)
            ELSE Returned(<<>>, cache)
    IN  IF depth >= RecursionLimit THEN Raised("RecursionError", cache)
        ELSE IF "!" \in Range(ref)
        THEN IF FirstIndex(AfterBang(ref), "!", 1) # 0 THEN Raised("ValueError", cache)
             ELSE Target(StripQuotes(BeforeBang(ref)), AfterBang(ref))
        ELSE Target(current_sheet, ref)

\* the loop of _evaluate_average over the cells still to visit
AverageOver(book, cache, current_sheet, cells, values, depth) ==
    LET Next1(r) ==
            IF r.raised # "" THEN r
            ELSE AverageOver(book, r.cache, current_sheet, Tail(cells),
                             IF r.v = <<>> THEN values ELSE Append(values, r.v), depth)
    IN  IF cells = <<>>
        THEN IF values = <<>> THEN Returned(<<>>, cache)
             ELSE Returned(FloatDiv(FloatSum(values), Float(Len(values), 1)), cache)
        ELSE Next1(evaluate_cell(book, cache, current_sheet,
                                 Head(cells)[1], Head(cells)[2], depth + 1))

_evaluate_average(book, cache, range_str, current_sheet, depth) ==
    LET \* ([A-Z]+)(\d+):([A-Z]+)(\d+) matched at the start of range_str
        n1 == RefLen(range_str, 1)
        n2 == RefLen(range_str, n1 + 2)
        first == SubSeq(range_str, 1, n1)
        last == SubSeq(range_str, n1 + 2, n1 + 1 + n2)
    IN  IF depth >= RecursionLimit THEN Raised("RecursionError", cache)
        ELSE IF n1 > 0 /\ n1 < Len(range_str) /\ range_str[n1 + 1] = ":" /\ n2 > 0
        THEN IF RunLen(first, 1, Upper) > 3 \/ RunLen(last, 1, Upper) > 3
             THEN Raised("ValueError", cache)
             ELSE AverageOver(book, cache, current_sheet,
                              RangeCells(RefRow(first), RefRow(last),
                                         RefColumn(first), RefColumn(last)),
                              <<>>, depth)
        ELSE Returned(<<>>, cache)

----------------------------------------------------------------------------
(* _parse_value on its own: texts written from a number, and other values  *)

PvSigns == {1, -1}
PvIntegers == {0, 12, 1234}
\* the digits after the point: <<how many, which>>
PvFractions == {<<0, 0>>, <<1, 5>>, <<2, 25>>}

\* the integer part, with a thousands separator or without
PvIntegerText(n, separated) ==
    IF separated /\ n >= 1000
    THEN IntText(n \div 1000) \o <<",">> \o Tail(IntText(1000 + (n % 1000)))
    ELSE IntText(n)

\* the text of a number: blanks, sign, integer part, fraction, per cent sign
PvText(x) ==
    (IF x.blank_before THEN <<" ">> ELSE <<>>)
    \o (IF x.sign < 0 THEN <<"-">> ELSE <<>>)
    \o PvIntegerText(x.integer, x.separated)
    \o (IF x.fraction[1] > 0 THEN <<".">> \o IntText(x.fraction[2]) ELSE <<>>)
    \o (IF x.percent THEN <<"%">> ELSE <<>>)
    \o (IF x.blank_after THEN <<" ">> ELSE <<>>)

\* the number written, as a fraction; a per cent sign makes it hundredths
PvNumber(x) ==
    Float(x.sign * (x.integer * Pow10(x.fraction[1]) + x.fraction[2]),
          Pow10(x.fraction[1]) * (IF x.percent THEN 100 ELSE 1))

PvWritten ==
    [sign : PvSigns, integer : PvIntegers, separated : BOOLEAN,
     fraction : PvFractions, percent : BOOLEAN,
     blank_before : BOOLEAN, blank_after : BOOLEAN]

\* values of numeric type, each with the float it is
PvNumeric ==
    {<<Num(<<"5">>), Float(5, 1)>>, <<Num(<<"0">>), Float(0, 1)>>,
     <<Num(<<"1", ".", "5">>), Float(3, 2)>>, <<Num(<<"-", "3">>), Float(-3, 1)>>}

\* the empty cell, the empty text, 'NA', '-', texts that are no number, a
\* datetime
PvOthers ==
    {None, Str(<<>>), [k |-> "d", s |-> D1]}
    \cup {Str(s) : s \in {<<"N", "A">>, <<"-">>, <<"a", "b", "c">>, <<"1", ".", "2", ".", "3">>, <<"%">>, <<" ">>, <<"1", "-", "2">>, <<"-", " ", "1">>, <<"N", "/", "A">>, <<"-", "-">>, <<".">>, <<"1", " ", "2">>}}

PvInit ==
    /\ rw = RwIdle
    /\ rp = RpIdle
    /\ UpdIdle
    /\ \/ \E x \in PvWritten :
              unit = [pc |-> "parse", val |-> Str(PvText(x)), expected |-> PvNumber(x),
                      out |-> <<>>]
       \/ \E p \in PvNumeric :
              unit = [pc |-> "parse", val |-> p[1], expected |-> p[2], out |-> <<>>]
       \/ \E v \in PvOthers :
              unit = [pc |-> "parse", val |-> v, expected |-> <<>>, out |-> <<>>]

\* one call of _parse_value; the ValueError of float() is caught inside
PvParse ==
    /\ unit.pc = "parse"
    /\ unit' = [unit EXCEPT !.pc = "parsed", !.out = _parse_value(unit.val)]
    /\ UNCHANGED <<rw, rp, updVars>>

PvNext == PvParse

SpecParse == PvInit /\ [][PvNext]_vars

\* C16: _parse_value returns None for the empty cell, the empty text, 'NA',
\* '-' and every text that is no number; the number itself for a numeric
\* value; and for the text of a number, with or without thousands
\* separator, surrounding blanks and per cent sign, the number written,
\* divided by 100 exactly when the text holds a per cent sign.
C16_ParseValue == unit.pc = "parsed" => unit.out = unit.expected

\* "12.5%" gave 0.125
C16_Witness ==
    /\ unit.pc = "parsed"
    /\ unit.val = Str(<<"1", "2", ".", "5", "%">>)
    /\ unit.out = Float(125, 1000)

----------------------------------------------------------------------------
(* evaluate_cell on its own: a calculation sheet whose cell A1 holds the    *)
(* formula tried, beside cells holding numbers, texts, nothing, a formula   *)
(* and a pair of formulas referring to each other, and a raw-data sheet.    *)

EvCalc == <<"c", "a", "l", "c">>
EvRaw == <<"a", "_", "I", "S">>

\* the formulas tried in A1, each with the shape its whole text has ("other"
\* for none of the six) and whether it leads to a cell that refers back
EvFormulas ==
    {
     [text |-> <<"=", "_", "x", "l", "f", "n", ".", "N", "U", "M", "B", "E", "R", "V", "A", "L", "U", "E", "(", "a", "_", "I", "S", "!", "D", "5", ")">>,
      shape |-> "wrapper", cycle |-> FALSE],
     [text |-> <<"=", "_", "x", "l", "f", "n", ".", "N", "U", "M", "B", "E", "R", "V", "A", "L", "U", "E", "(", "'", "a", "_", "I", "S", "'", "!", "D", "6", ")">>,
      shape |-> "wrapper", cycle |-> FALSE],
     [text |-> <<"=", "_", "x", "l", "f", "n", ".", "N", "U", "M", "B", "E", "R", "V", "A", "L", "U", "E", "(", "B", "1", ")">>,
      shape |-> "wrapper", cycle |-> FALSE],
     [text |-> <<"=", "_", "x", "l", "f", "n", ".", "N", "U", "M", "B", "E", "R", "V", "A", "L", "U", "E", "(", "a", "_", "I", "S", "!", "x", ")">>,
      shape |-> "wrapper", cycle |-> FALSE],
     [text |-> <<"=", "_", "x", "l", "f", "n", ".", "N", "U", "M", "B", "E", "R", "V", "A", "L", "U", "E", "(", "z", "z", "!", "D", "5", ")">>,
      shape |-> "wrapper", cycle |-> FALSE],
     [text |-> <<"=", "_", "x", "l", "f", "n", ".", "N", "U", "M", "B", "E", "R", "V", "A", "L", "U", "E", "(", "a", "_", "I", "S", "!", "c", "a", "l", "c", "!", "B", "1", ")">>,
      shape |-> "wrapper", cycle |-> FALSE],
     [text |-> <<"=", "B", "1">>,
      shape |-> "ref", cycle |-> FALSE],
     [text |-> <<"=", "D", "1">>,
      shape |-> "ref", cycle |-> FALSE],
     [text |-> <<"=", "D", "9">>,
      shape |-> "ref", cycle |-> FALSE],
     [text |-> <<"=", "B", "0">>,
      shape |-> "ref", cycle |-> FALSE],
     [text |-> <<"=", "A", "B", "C", "D", "1">>,
      shape |-> "ref", cycle |-> FALSE],
     [text |-> <<"=", "B", "1", "*", "2">>,
      shape |-> "times", cycle |-> FALSE],
     [text |-> <<"=", "C", "1", "*", "1", ".", "5">>,
      shape |-> "times", cycle |-> FALSE],
     [text |-> <<"=", "D", "9", "*", "2">>,
      shape |-> "times", cycle |-> FALSE],
     [text |-> <<"=", "B", "1", "*", "4", "/", "C", "1">>,
      shape |-> "times_over", cycle |-> FALSE],
     [text |-> <<"=", "C", "1", "*", "2", "/", "B", "1">>,
      shape |-> "times_over", cycle |-> FALSE],
     [text |-> <<"=", "B", "1", "-", "C", "1">>,
      shape |-> "binary", cycle |-> FALSE],
     [text |-> <<"=", "B", "1", "+", "C", "1">>,
      shape |-> "binary", cycle |-> FALSE],
     [text |-> <<"=", "B", "1", "*", "C", "1">>,
      shape |-> "binary", cycle |-> FALSE],
     [text |-> <<"=", "B", "1", "/", "C", "1">>,
      shape |-> "binary", cycle |-> FALSE],
     [text |-> <<"=", "C", "1", "/", "B", "1">>,
      shape |-> "binary", cycle |-> FALSE],
     [text |-> <<"=", "A", "V", "E", "R", "A", "G", "E", "(", "B", "1", ":", "C", "1", ")">>,
      shape |-> "average", cycle |-> FALSE],
     [text |-> <<"=", "A", "V", "E", "R", "A", "G", "E", "(", "B", "1", ":", "D", "1", ")">>,
      shape |-> "average", cycle |-> FALSE],
     [text |-> <<"=", "A", "V", "E", "R", "A", "G", "E", "(", "E", "1", ":", "F", "1", ")">>,
      shape |-> "average", cycle |-> FALSE],
     [text |-> <<"=", "A", "V", "E", "R", "A", "G", "E", "(", "C", "1", ":", "B", "1", ")">>,
      shape |-> "average", cycle |-> FALSE],
     [text |-> <<"=", "A", "1">>,
      shape |-> "ref", cycle |-> TRUE],
     [text |-> <<"=", "B", "2">>,
      shape |-> "ref", cycle |-> TRUE],
     [text |-> <<"=", "A", "1", "+", "B", "1">>,
      shape |-> "binary", cycle |-> TRUE],
     [text |-> <<"=", "A", "1", "*", "2">>,
      shape |-> "times", cycle |-> TRUE],
     [text |-> <<"=", "_", "x", "l", "f", "n", ".", "N", "U", "M", "B", "E", "R", "V", "A", "L", "U", "E", "(", "c", "a", "l", "c", "!", "A", "2", ")">>,
      shape |-> "wrapper", cycle |-> TRUE],
     [text |-> <<"=", "A", "V", "E", "R", "A", "G", "E", "(", "A", "1", ":", "B", "1", ")">>,
      shape |-> "average", cycle |-> TRUE],
     [text |-> <<"=", "_", "x", "l", "f", "n", ".", "N", "U", "M", "B", "E", "R", "V", "A", "L", "U", "E", "(", "a", "_", "I", "S", "!", "D", "5", ")", "+", "_", "x", "l", "f", "n", ".", "N", "U", "M", "B", "E", "R", "V", "A", "L", "U", "E", "(", "a", "_", "I", "S", "!", "D", "6", ")">>,
      shape |-> "other", cycle |-> FALSE],
     [text |-> <<"=", "_", "x", "l", "f", "n", ".", "N", "U", "M", "B", "E", "R", "V", "A", "L", "U", "E", "(", "B", "1", ")", "*", "2">>,
      shape |-> "other", cycle |-> FALSE],
     [text |-> <<"=", "A", "V", "E", "R", "A", "G", "E", "(", "B", "1", ":", "C", "1", ")", "+", "1">>,
      shape |-> "other", cycle |-> FALSE],
     [text |-> <<"=", "A", "V", "E", "R", "A", "G", "E", "(", "B", "1", ":", "C", "1", ")", "*", "B", "1">>,
      shape |-> "other", cycle |-> FALSE],
     [text |-> <<"=", "S", "U", "M", "(", "B", "1", ":", "C", "1", ")">>,
      shape |-> "other", cycle |-> FALSE],
     [text |-> <<"=", "B", "1", "+", "C", "1", "+", "D", "1">>,
      shape |-> "other", cycle |-> FALSE],
     [text |-> <<"=", "(", "B", "1", ")">>,
      shape |-> "other", cycle |-> FALSE],
     [text |-> <<"=", "b", "1">>,
      shape |-> "other", cycle |-> FALSE],
     [text |-> <<"=", "B", "1", "*", "-", "2">>,
      shape |-> "other", cycle |-> FALSE],
     [text |-> <<"=", "1", "+", "2">>,
      shape |-> "other", cycle |-> FALSE],
     [text |-> <<"=", "-", "B", "1">>,
      shape |-> "other", cycle |-> FALSE],
     [text |-> <<"=", "A", "V", "E", "R", "A", "G", "E", "(", "a", "_", "I", "S", "!", "D", "5", ":", "D", "6", ")">>,
      shape |-> "other", cycle |-> FALSE]
    }

EvOperands == {Num(<<"6">>), Str(<<"1", ",", "2", "3", "4">>), Str(<<"N", "A">>)}
EvDivisors == {Num(<<"0">>), Num(<<"3">>), None}

EvWorkbook(formula, operand, divisor) ==
    << [title |-> EvCalc,
        cells |-> [rc \in {<<1, 1>>, <<1, 2>>, <<1, 3>>, <<1, 4>>, <<2, 1>>, <<2, 2>>} |->
                      IF rc = <<1, 1>> THEN Str(formula)
                      ELSE IF rc = <<1, 2>> THEN operand
                      ELSE IF rc = <<1, 3>> THEN divisor
                      ELSE IF rc = <<1, 4>> THEN Str(<<"=", "B", "1", "*", "2">>)
                      ELSE IF rc = <<2, 1>> THEN Str(<<"=", "B", "2">>)
                      ELSE Str(<<"=", "A", "2">>)]],
       [title |-> EvRaw,
        cells |-> [rc \in {<<5, 4>>, <<6, 4>>} |->
                      IF rc = <<5, 4>> THEN Str(<<"1", "2", ".", "5", "%">>) ELSE Num(<<"4">>)]] >>

\* the cells a caller asks for: A1 and D1 of the calculation sheet, D5 of the
\* raw-data sheet
EvTargets == {<<EvCalc, 1, 1>>, <<EvCalc, 1, 4>>, <<EvRaw, 5, 4>>}

\* the calls made on one evaluator
EvMaxCalls == 2

EvInit ==
    /\ rw = RwIdle
    /\ rp = RpIdle
    /\ UpdIdle
    /\ \E f \in EvFormulas, operand \in EvOperands, divisor \in EvDivisors :
           unit = [pc |-> "evaluate", formula |-> f,
                   workbook |-> EvWorkbook(f.text, operand, divisor),
                   cache |-> <<>>, calls |-> 0, target |-> <<>>,
                   out |-> Returned(<<>>, <<>>)]

\* one call of evaluate_cell by a caller; the cache outlives the call
EvEvaluate ==
    /\ unit.pc = "evaluate"
    /\ unit.calls < EvMaxCalls
    /\ \E target \in EvTargets :
       \E out \in {evaluate_cell(unit.workbook, unit.cache, target[1], target[2], target[3], 0)} :
           unit' = [unit EXCEPT !.calls = @ + 1, !.target = target,
                                !.cache = out.cache, !.out = out]
    /\ UNCHANGED <<rw, rp, updVars>>

EvNext == EvEvaluate

SpecEvaluate == EvInit /\ [][EvNext]_vars

\* the first call on a fresh evaluator asked for A1, the formula tried
EvFormulaEvaluated == unit.pc = "evaluate" /\ unit.calls = 1 /\ unit.target = <<EvCalc, 1, 1>>

\* C17: when the formula evaluated leads back to its own cell or to two
\* cells referring to each other, evaluate_cell ends returning None and
\* raises nothing.
C17_CycleGivesNone ==
    EvFormulaEvaluated /\ unit.formula.cycle
        => unit.out.raised = "" /\ unit.out.v = <<>>

\* C18: a formula whose whole text is none of the six shapes evaluates to
\* None; a wrapper or an AVERAGE call followed by more text does not
\* evaluate to the value of the call it starts with.
C18_OtherShapeGivesNone ==
    EvFormulaEvaluated /\ unit.formula.shape = "other"
        => unit.out.raised = "" /\ unit.out.v = <<>>

\* what the other four shapes do: ^ and $ hold them to the whole text
C18_AnchoredShapes ==
    EvFormulaEvaluated /\ unit.formula.shape = "other"
       /\ ~StartsAt(unit.formula.text, 2, NUMBERVALUE) /\ ~StartsAt(unit.formula.text, 2, AVERAGE)
        => unit.out.raised = "" /\ unit.out.v = <<>>

\* C19: a call of evaluate_cell raises nothing, whatever the formula refers
\* to (formulas leading back to their own cell left aside).
C19_NeverRaises == unit.calls > 0 /\ ~unit.formula.cycle => unit.out.raised = ""

\* the formulas tried that name a sheet the workbook has not, hold two '!'
\* in one reference, or name row 0 or a column of four letters
EvRaising ==
    {f \in EvFormulas :
        \/ \E i \in 1..Len(f.text) : StartsAt(f.text, i, <<"z", "z", "!">>)
        \/ \E i \in 1..Len(f.text) : StartsAt(f.text, i, <<"!", "c", "a", "l", "c", "!">>)
        \/ f.text \in {<<"=", "B", "0">>, <<"=", "A", "B", "C", "D", "1">>}}

\* what does hold: apart from those references nothing raises; an empty
\* target, a reference that is no cell reference, a zero divisor and an
\* AVERAGE over no value give None
C19_OtherReferencesGiveNone ==
    unit.calls > 0 /\ ~unit.formula.cycle /\ unit.formula \notin EvRaising
        => unit.out.raised = ""

----------------------------------------------------------------------------
(* The period headers of the calculation sheets after a run of             *)
(* update_workbook                                                         *)

\* the raw-data sheets of a workbook, income statement then balance sheet
RawDataOf(book) ==
    << IF find_sheets(book).is_sheet # <<>> THEN Sheet(book, find_sheets(book).is_sheet) ELSE <<>>,
       IF find_sheets(book).bs_sheet # <<>> THEN Sheet(book, find_sheets(book).bs_sheet) ELSE <<>> >>

\* the dates of a raw-data sheet, in column order
SheetDates(ws) ==
    LET InOrder(cols) == [i \in 1..Len(cols) |-> extract_column_dates(ws)[cols[i]]]
    IN  InOrder(Sorted(DOMAIN extract_column_dates(ws)))

\* row 1 of a calculation sheet holds these dates from its start column on
\* and nothing after them
HeadersAre(book, name, dates) ==
    /\ \A i \in 1..Len(dates) :
           Cell(Sheet(book, name), CALC_DATE_ROW, CalcStartCol(name) + i - 1) = Str(dates[i])
    /\ \A k \in DOMAIN Sheet(book, name) :
           k[1] = CALC_DATE_ROW /\ k[2] >= CalcStartCol(name) + Len(dates)
               => Sheet(book, name)[k] = None

\* a run that was no dry run has returned, and a raw-data sheet of the
\* workbook file is no longer what it was when the run began
RanAndChangedRawData ==
    /\ pc = "returned" /\ ~dry
    /\ RawDataOf(disk) # RawDataOf(loc.disk0)

\* row 1 of every configured calculation sheet of the workbook holds the
\* dates of this raw-data sheet
HeadersFollow(book, raw_ws) ==
    \A name \in ConfiguredSheets :
        HasSheet(book, name) => HeadersAre(book, name, SheetDates(raw_ws))

\* C20: after a run that was no dry run and changed raw data, row 1 of every
\* configured calculation sheet of the workbook holds, from the sheet's
\* start column on, the dates of the raw-data sheet (of the income statement
\* or of the balance sheet), and nothing after them.
C20_HeadersFollowRawDates ==
    RanAndChangedRawData =>
        \E i \in 1..2 : RawDataOf(disk)[i] # <<>> /\ HeadersFollow(disk, RawDataOf(disk)[i])

\* the raw-data sheet sync_calculation_sheet_dates reads: the income
\* statement, or the balance sheet in a workbook without one
AuthoritativeSheet(book) ==
    IF RawDataOf(book)[1] # <<>> THEN RawDataOf(book)[1] ELSE RawDataOf(book)[2]

\* what does hold: when the run counted an updated cell, the headers are the
\* dates of the income statement
C20_HeadersFollowWhenCellsUpdated ==
    RanAndChangedRawData /\ result.cells_updated > 0
        => HeadersFollow(disk, AuthoritativeSheet(disk))

----------------------------------------------------------------------------
(* replace_all_raw_data on its own: an existing sheet of two or three      *)
(* periods whose rows hold values and a formula, and an export whose       *)
(* labelled rows sit at rows of its own.                                   *)

FrCostRows == {START_ROW + 1, MAX_ROW - 1, MAX_ROW}
FrExportRevRows == {START_ROW, START_ROW + 1}
\* the row of the export's second label; 0 for an export without it
FrExportCostRows == {0, START_ROW + 2, MAX_ROW}

\* the existing sheet: 'Rev' in row 12, with a formula or a number in D;
\* 'Cost' in cost_row; with or without a third period in F
FrExisting(rev_formula, cost_row, third) ==
    SheetOf({<<CODE_ROW, 4, Str(<<"H", "1">>)>>, <<CODE_ROW, 5, Str(<<"H", "2">>)>>,
             <<DATE_ROW, 4, Str(D1)>>, <<DATE_ROW, 5, Str(D2)>>,
             <<START_ROW, LABEL_COL, Str(<<"R", "e", "v">>)>>,
             <<START_ROW, 4, IF rev_formula THEN Str(<<"=", "E", "1", "2", "*", "2">>) ELSE Num(<<"1">>)>>,
             <<START_ROW, 5, Num(<<"2">>)>>,
             <<cost_row, LABEL_COL, Str(<<"C", "o", "s", "t">>)>>,
             <<cost_row, 4, Num(<<"3">>)>>, <<cost_row, 5, Num(<<"4">>)>>}
            \cup (IF third
                  THEN {<<CODE_ROW, 6, Str(<<"H", "3">>)>>, <<DATE_ROW, 6, Str(D3)>>,
                        <<START_ROW, 6, Num(<<"8">>)>>, <<cost_row, 6, Num(<<"9">>)>>}
                  ELSE {}))

\* the export: 'Rev' in rev_row with or without a value in D, 'Cost' in
\* cost_row or nowhere
FrExport(rev_row, cost_row, rev_value) ==
    SheetOf({<<CODE_ROW, 4, Str(<<"H", "1">>)>>, <<CODE_ROW, 5, Str(<<"H", "2">>)>>,
             <<DATE_ROW, 4, Str(D1)>>, <<DATE_ROW, 5, Str(D2)>>,
             <<rev_row, LABEL_COL, Str(<<"R", "e", "v">>)>>, <<rev_row, 5, Num(<<"6">>)>>}
            \cup (IF rev_value THEN {<<rev_row, 4, Num(<<"5">>)>>} ELSE {})
            \cup (IF cost_row # 0
                  THEN {<<cost_row, LABEL_COL, Str(<<"C", "o", "s", "t">>)>>,
                        <<cost_row, 4, Num(<<"7">>)>>, <<cost_row, 5, Num(<<"0">>)>>}
                  ELSE {}))

FrInit ==
    /\ rw = RwIdle
    /\ rp = RpIdle
    /\ UpdIdle
    /\ \E rev_formula \in BOOLEAN, cost_row \in FrCostRows, third \in BOOLEAN,
          rev_row \in FrExportRevRows, export_cost_row \in FrExportCostRows,
          rev_value \in BOOLEAN, dry_run \in BOOLEAN :
           unit = [pc |-> "replace", dry_run |-> dry_run,
                   existing |-> FrExisting(rev_formula, cost_row, third),
                   export |-> FrExport(rev_row, export_cost_row, rev_value),
                   out |-> EmptySheet, cells_written |-> 0]

\* one call of replace_all_raw_data
FrReplace ==
    /\ unit.pc = "replace"
    /\ \E r \in {replace_all_raw_data(unit.existing, unit.export, "is", unit.dry_run)} :
           unit' = [unit EXCEPT !.pc = "replaced", !.out = r.ws,
                                !.cells_written = r.cells_written]
    /\ UNCHANGED <<rw, rp, updVars>>

FrNext == FrReplace

SpecFullReplace == FrInit /\ [][FrNext]_vars

\* the data rows: rows 12-60, columns D onward
FrDataCell(k) == START_ROW <= k[1] /\ k[1] <= MAX_ROW /\ k[2] >= START_COL

\* the rows of the export carrying the label of row `row` of the existing sheet
FrExportRowsOf(row) ==
    {r \in START_ROW..MAX_ROW :
        /\ Cell(unit.existing, row, LABEL_COL) # None
        /\ Cell(unit.export, r, LABEL_COL) = Cell(unit.existing, row, LABEL_COL)}

\* C21: after a full replace that is no dry run, every non-formula cell of
\* rows 12-60 from column D on holds the value of the export's row of the
\* same label in the same column or is empty, and rows 8 and 10 hold from
\* column D on exactly what the export holds there.
C21_ReplaceLeavesOnlyExportValues ==
    unit.pc = "replaced" /\ ~unit.dry_run =>
        /\ \A k \in DOMAIN unit.out :
               FrDataCell(k) /\ ~is_formula(unit.out[k]) /\ unit.out[k] # None
                   => \E r \in FrExportRowsOf(k[1]) : unit.out[k] = Cell(unit.export, r, k[2])
        /\ \A row \in {CODE_ROW, DATE_ROW} : \A col \in START_COL..(SCAN_END - 1) :
               Cell(unit.out, row, col) = Cell(unit.export, row, col)

\* what does hold: the same for rows 12-59
C21_ExceptLastRow ==
    unit.pc = "replaced" /\ ~unit.dry_run =>
        /\ \A k \in DOMAIN unit.out :
               FrDataCell(k) /\ k[1] < MAX_ROW /\ ~is_formula(unit.out[k]) /\ unit.out[k] # None
                   => \E r \in FrExportRowsOf(k[1]) : unit.out[k] = Cell(unit.export, r, k[2])
        /\ \A row \in {CODE_ROW, DATE_ROW} : \A col \in START_COL..(SCAN_END - 1) :
               Cell(unit.out, row, col) = Cell(unit.export, row, col)

\* C25: every cell of the data rows that holds a formula before a full
\* replace holds the identical formula after it.
C25_ReplaceKeepsFormulas ==
    unit.pc = "replaced" =>
        \A k \in DOMAIN unit.existing :
            FrDataCell(k) /\ is_formula(unit.existing[k])
                => Cell(unit.out, k[1], k[2]) = unit.existing[k]

\* what does hold: a formula stays where the export has no value for its cell
C25_FormulaKeptWithoutExportValue ==
    unit.pc = "replaced" =>
        \A k \in DOMAIN unit.existing :
            /\ FrDataCell(k) /\ is_formula(unit.existing[k])
            /\ \A r \in FrExportRowsOf(k[1]) : Cell(unit.export, r, k[2]) = None
            => Cell(unit.out, k[1], k[2]) = unit.existing[k]

----------------------------------------------------------------------------
(* The reference rewriter on formulas naming the workbook's sheets: the    *)
(* raw-data sheets, and calculation sheets, C7 among them.                  *)

NamedSheets == {<<>>, <<"a", "_", "I", "S">>, C7_SHEET, RO}
NamedRows == {<<"5">>, <<"1", "2">>}
NamedItems ==
    [sheet : NamedSheets, cabs : {FALSE}, col : RefColumns, rabs : {FALSE}, row : NamedRows]

NmInit ==
    /\ rp = RpIdle
    /\ unit = UnitIdle
    /\ UpdIdle
    /\ \E n \in 1..MaxRefs :
        \E refs \in [1..n -> NamedItems], joins \in [1..(n - 1) -> RefJoins],
           p \in ColumnPairs :
            rw = [pc |-> "ready", refs |-> refs, joins |-> joins,
                  formula |-> RenderFormula(refs, joins),
                  source_col |-> p[1], target_col |-> p[2]]

SpecRewriteNamed == NmInit /\ [][RwNext]_vars

\* the formulas that differ from the one written in column letters only
SameButColumns(refs, joins) ==
    {RenderFormula([i \in 1..Len(refs) |-> [refs[i] EXCEPT !.col = cols[i]]], joins) :
        cols \in [1..Len(refs) -> RefColumns]}

\* C22: the rewritten formula names, reference by reference, the sheets and
\* the rows the formula named; only column letters differ.
C22_SheetNamesAndRowsKept ==
    rw.pc = "done" => rw.formula \in SameButColumns(rw.refs, rw.joins)

\* what does hold: the same for formulas that do not name the sheet C7
C22_KeptUnlessSheetLooksLikeCell ==
    rw.pc = "done" /\ (\A i \in 1..Len(rw.refs) : rw.refs[i].sheet # C7_SHEET)
        => rw.formula \in SameButColumns(rw.refs, rw.joins)

----------------------------------------------------------------------------
(* WorkbookEvaluator.get_row_series                                         *)

\* the loop gone wrong: three unresolved cells end the scan before any
\* value has been found
RECURSIVE RowSeriesLoop_StopsWithoutData(_, _, _, _, _, _, _, _)
RowSeriesLoop_StopsWithoutData(book, cache, sheet_name, row_num, col, end, series, consecutive_empty) ==
    LET Then(r) ==
            IF r.raised # "" THEN [raised |-> r.raised, series |-> series, cache |-> r.cache]
            ELSE IF r.v # <<>>
            THEN RowSeriesLoop_StopsWithoutData(book, r.cache, sheet_name, row_num, col + 1, end,
                                                Append(series, <<col, r.v>>), 0)
            ELSE IF consecutive_empty + 1 >= 3
            THEN [raised |-> "", series |-> series, cache |-> r.cache]
            ELSE RowSeriesLoop_StopsWithoutData(book, r.cache, sheet_name, row_num, col + 1, end,
                                                series, consecutive_empty + 1)
    IN  IF col >= end THEN [raised |-> "", series |-> series, cache |-> cache]
        ELSE Then(evaluate_cell(book, cache, sheet_name, row_num, col, 1))

\* the loop of get_row_series from column col on
RECURSIVE RowSeriesLoop(_, _, _, _, _, _, _, _)
RowSeriesLoop(book, cache, sheet_name, row_num, col, end, series, consecutive_empty) ==
    LET Then(r) ==
            IF r.raised # "" THEN [raised |-> r.raised, series |-> series, cache |-> r.cache]
            ELSE IF r.v # <<>>
            THEN RowSeriesLoop(book, r.cache, sheet_name, row_num, col + 1, end,
                               Append(series, <<col, r.v>>), 0)
            ELSE IF consecutive_empty + 1 >= 3 /\ series # <<>>
            THEN [raised |-> "", series |-> series, cache |-> r.cache]
            ELSE RowSeriesLoop(book, r.cache, sheet_name, row_num, col + 1, end,
                               series, consecutive_empty + 1)
    IN  IF col >= end THEN [raised |-> "", series |-> series, cache |-> cache]
        ELSE Then(evaluate_cell(book, cache, sheet_name, row_num, col, 1))

get_row_series(book, cache, sheet_name, row_num, start_col, max_cols) ==
    RowSeriesLoop(book, cache, sheet_name, row_num, start_col, start_col + max_cols, <<>>, 0)

----------------------------------------------------------------------------
(* get_row_series on its own: one row of a sheet, each cell of it a         *)
(* number, a formula, the text 'NA' or empty.                               *)

SrRow == 2
SrCols == START_COL..(START_COL + 5)
\* what a cell of the row holds, and the value it resolves to
SrContents == {"empty", "number", "formula", "NA"}
SrMaxCols == {4, 8}

SrCell(content) ==
    IF content = "number" THEN Num(<<"1">>)
    ELSE IF content = "formula" THEN Str(<<"=", "B", "1", "*", "2">>)
    ELSE IF content = "NA" THEN Str(<<"N", "A">>)
    ELSE None

SrValue(content) == IF content = "number" THEN Float(1, 1) ELSE Float(12, 1)

SrWorkbook(contents) ==
    << [title |-> EvCalc,
        cells |-> [rc \in {<<1, 2>>} \cup {<<SrRow, c>> : c \in {c \in SrCols : contents[c] # "empty"}} |->
                      IF rc = <<1, 2>> THEN Num(<<"6">>) ELSE SrCell(contents[rc[2]])]] >>

SrInit ==
    /\ rw = RwIdle
    /\ rp = RpIdle
    /\ UpdIdle
    /\ \E contents \in [SrCols -> SrContents], max_cols \in SrMaxCols :
           unit = [pc |-> "series", contents |-> contents, max_cols |-> max_cols,
                   workbook |-> SrWorkbook(contents), out |-> <<>>, raised |-> ""]

\* one call of get_row_series on a fresh evaluator
SrSeries ==
    /\ unit.pc = "series"
    /\ \E r \in {get_row_series(unit.workbook, <<>>, EvCalc, SrRow, START_COL, unit.max_cols)} :
           unit' = [unit EXCEPT !.pc = "returned", !.out = r.series, !.raised = r.raised]
    /\ UNCHANGED <<rw, rp, updVars>>

SrNext == SrSeries

SpecSeries == SrInit /\ [][SrNext]_vars

SrResolved(c) == c \in SrCols /\ unit.contents[c] \in {"number", "formula"}

\* the columns that end the scan: the third of three unresolved cells in a
\* row, with a resolved cell somewhere before them
SrStops ==
    {c \in (START_COL + 2)..(START_COL + unit.max_cols - 1) :
        /\ ~SrResolved(c) /\ ~SrResolved(c - 1) /\ ~SrResolved(c - 2)
        /\ \E b \in START_COL..(c - 3) : SrResolved(b)}

\* the columns scanned
SrScanned ==
    {c \in START_COL..(START_COL + unit.max_cols - 1) : \A s \in SrStops : c < s}

\* C23: get_row_series returns, in increasing column order, exactly the
\* resolved cells of the row from the start column up to the first run of
\* three unresolved cells that follows a resolved cell, or up to the column
\* limit, each with its value.
C23_RowSeries ==
    unit.pc = "returned" =>
        /\ unit.raised = ""
        /\ \A i \in 1..(Len(unit.out) - 1) : unit.out[i][1] < unit.out[i + 1][1]
        /\ {e[1] : e \in Range(unit.out)} = {c \in SrScanned : SrResolved(c)}
        /\ \A e \in Range(unit.out) : e[2] = SrValue(unit.contents[e[1]])

\* two unresolved cells, a value, two unresolved cells, a value, three
\* unresolved cells: both values are returned
C23_Witness ==
    /\ unit.pc = "returned" /\ unit.max_cols = 8
    /\ unit.contents = [c \in SrCols |-> IF c \in {START_COL + 2, START_COL + 5} THEN "number"
                                          ELSE IF c = START_COL THEN "NA" ELSE "empty"]
    /\ unit.out = <<<<START_COL + 2, Float(1, 1)>>, <<START_COL + 5, Float(1, 1)>>>>

----------------------------------------------------------------------------
(* map_workbook_structure on its own: a workbook whose raw-data sheets     *)
(* hold, in the date row, dates, blanks or nothing.                         *)

StIsCols == START_COL..(START_COL + 2)
StBsCols == START_COL..(START_COL + 1)
StDateCells == {None, Str(D1), Str(D2), Str(<<" ">>)}
StLabelCells == {None, Str(<<"R", "e", "v">>), Str(<<" ">>)}

StSheet(dates, label) ==
    Without([k \in {<<DATE_ROW, c>> : c \in DOMAIN dates}
                   \cup {<<CODE_ROW, START_COL>>, <<START_ROW, LABEL_COL>>} |->
                IF k[1] = DATE_ROW THEN dates[k[2]]
                ELSE IF k[1] = CODE_ROW THEN Str(<<"H", "1">>)
                ELSE label],
            {k \in {<<DATE_ROW, c>> : c \in DOMAIN dates} : dates[k[2]] = None}
            \cup (IF label = None THEN {<<START_ROW, LABEL_COL>>} ELSE {}))

StInit ==
    /\ rw = RwIdle
    /\ rp = RpIdle
    /\ UpdIdle
    /\ \E is_dates \in [StIsCols -> StDateCells], bs_dates \in [StBsCols -> StDateCells],
          label \in StLabelCells :
           unit = [pc |-> "map",
                   workbook |-> <<[title |-> <<"a", "_", "I", "S">>, cells |-> StSheet(is_dates, label)],
                                  [title |-> <<"a", "_", "b", "s">>, cells |-> StSheet(bs_dates, label)]>>,
                   structure |-> <<>>]

\* one call of map_workbook_structure
StMap ==
    /\ unit.pc = "map"
    /\ unit' = [unit EXCEPT !.pc = "mapped",
                            !.structure = map_workbook_structure(unit.workbook)]
    /\ UNCHANGED <<rw, rp, updVars>>

StNext == StMap

SpecStructure == StInit /\ [][StNext]_vars

\* no two keys of the map carry the same value
Distinct(map) == \A a, b \in DOMAIN map : map[a] = map[b] => a = b

\* the cell is a datetime or a text with something other than blanks in it
NonEmptyCell(ws, row, col) ==
    \/ Cell(ws, row, col).k = "d"
    \/ IsStr(Cell(ws, row, col)) /\ Strip(Cell(ws, row, col).s) # <<>>

\* the index maps of one raw-data sheet hold only rows and columns whose
\* cell is non-empty
OnlyNonEmpty(ws, row_labels, column_dates, period_codes) ==
    /\ \A r \in DOMAIN row_labels : NonEmptyCell(ws, r, LABEL_COL)
    /\ \A c \in DOMAIN column_dates : NonEmptyCell(ws, DATE_ROW, c)
    /\ \A c \in DOMAIN period_codes : NonEmptyCell(ws, CODE_ROW, c)

StOnlyNonEmpty ==
    /\ OnlyNonEmpty(unit.workbook[1].cells, unit.structure.is_row_labels,
                    unit.structure.is_column_dates, unit.structure.is_period_codes)
    /\ OnlyNonEmpty(unit.workbook[2].cells, unit.structure.bs_row_labels,
                    unit.structure.bs_column_dates, unit.structure.bs_period_codes)

\* C24: the structure map_workbook_structure produces has pairwise distinct
\* column dates within each raw-data sheet, and its index maps hold only
\* rows and columns whose cell is non-empty.
C24_DistinctDatesPerSheet ==
    unit.pc = "mapped" =>
        /\ Distinct(unit.structure.is_column_dates)
        /\ Distinct(unit.structure.bs_column_dates)
        /\ StOnlyNonEmpty

\* what does hold: the index maps hold only non-empty cells
C24_OnlyNonEmptyCells == unit.pc = "mapped" => StOnlyNonEmpty

----------------------------------------------------------------------------
(* The counters and the change list update_workbook returns                 *)

\* the entries of the change list for one raw-data sheet
EntriesOf(log, sheet_type) == {i \in 1..Len(log) : log[i].sheet_type = sheet_type}

\* C26: when update_workbook returns without having aborted, cells_updated
\* is is_cells_updated + bs_cells_updated; on an incremental run the change
\* list has one entry per updated cell, the income statement's entries
\* before the balance sheet's, and no cell of a sheet twice.
C26_CountersAndChangeList ==
    pc = "returned" /\ result.success =>
        /\ result.cells_updated = result.is_cells_updated + result.bs_cells_updated
        /\ Incremental =>
               /\ Len(result.changes_log) = result.cells_updated
               /\ Cardinality(EntriesOf(result.changes_log, "is")) = result.is_cells_updated
               /\ Cardinality(EntriesOf(result.changes_log, "bs")) = result.bs_cells_updated
               /\ \A i \in EntriesOf(result.changes_log, "is") :
                  \A j \in EntriesOf(result.changes_log, "bs") : i < j
               /\ \A i, j \in 1..Len(result.changes_log) :
                      /\ result.changes_log[i].sheet_type = result.changes_log[j].sheet_type
                      /\ result.changes_log[i].row = result.changes_log[j].row
                      /\ result.changes_log[i].col = result.changes_log[j].col
                      => i = j

\* an incremental run has returned a change list with entries of both sheets
C26_Witness ==
    /\ pc = "returned" /\ result.success /\ Incremental
    /\ EntriesOf(result.changes_log, "is") # {}
    /\ EntriesOf(result.changes_log, "bs") # {}

----------------------------------------------------------------------------
(* New period columns and the workbook file                                 *)

\* C27: a run that was no dry run and added a new period column has written
\* the workbook, new column included, to the workbook file.
C27_NewColumnIsSaved ==
    pc = "returned" /\ ~dry /\ result.new_columns_added > 0
        => loc.saves = 1 /\ disk = wb

\* what does hold: it has when the run also updated a cell or renamed sheets
C27_SavedWithCellsOrRename ==
    /\ pc = "returned" /\ ~dry /\ result.new_columns_added > 0
    /\ (result.cells_updated > 0 \/ result.sheets_renamed > 0)
    => loc.saves = 1 /\ disk = wb

\* the first run, incremental with period extension and no dry run, has
\* taken both extension steps; both exports add the date 2024-06-30, which
\* the workbook did not have
BothExportsAddedSameDate ==
    /\ pc = "sync" /\ ~dry /\ Incremental /\ inp.extend_periods /\ hist = <<>>
    /\ inp.is_export.present /\ inp.bs_export.present
    /\ D3 \in Range(extract_column_dates(inp.is_export.ws))
    /\ D3 \in Range(extract_column_dates(inp.bs_export.ws))

\* the column after the last header of a calculation sheet as the run found it
NewHeaderCol(name) == get_last_data_column(Sheet(loc.disk0, name), CALC_DATE_ROW) + 1

\* the calculation sheets of the workbook that carry period headers
HeadedSheets == {name \in Range(calculation_sheets) : HasSheet(loc.disk0, name)}

\* the formulas of the new column of a calculation sheet
NewFormulas(name) ==
    {k \in DOMAIN Sheet(wb, name) :
        k[2] = NewHeaderCol(name) /\ is_formula(Sheet(wb, name)[k])}

\* C28: when both exports introduce the same single new date, every
\* calculation sheet has gained exactly one column, headed by that date, and
\* formulas_extended is the number of formulas in those columns.
C28_OneColumnPerNewDate ==
    BothExportsAddedSameDate =>
        /\ \A name \in HeadedSheets :
               /\ ColsOf(Sheet(wb, name)) = ColsOf(Sheet(loc.disk0, name)) \cup {NewHeaderCol(name)}
               /\ Cell(Sheet(wb, name), CALC_DATE_ROW, NewHeaderCol(name)) = Str(D3)
        /\ result.formulas_extended =
               Cardinality(UNION {{<<name, k>> : k \in NewFormulas(name)} : name \in HeadedSheets})

\* what does hold: the same when only the income statement export adds the
\* date
C28_OneColumnFromOneExport ==
    /\ pc = "sync" /\ ~dry /\ Incremental /\ inp.extend_periods /\ hist = <<>>
    /\ inp.is_export.present
    /\ D3 \in Range(extract_column_dates(inp.is_export.ws))
    /\ ~(inp.bs_export.present /\ D3 \in Range(extract_column_dates(inp.bs_export.ws)))
    => /\ \A name \in HeadedSheets :
              /\ ColsOf(Sheet(wb, name)) = ColsOf(Sheet(loc.disk0, name)) \cup {NewHeaderCol(name)}
              /\ Cell(Sheet(wb, name), CALC_DATE_ROW, NewHeaderCol(name)) = Str(D3)
       /\ result.formulas_extended =
              Cardinality(UNION {{<<name, k>> : k \in NewFormulas(name)} : name \in HeadedSheets})

----------------------------------------------------------------------------
(* rename_sheets_and_update_references when the new prefix may contain the *)
(* old one: sheets mate_is and mate_bs, in two letter cases, and a formula  *)
(* that writes each name as the sheet is titled or in lower case.           *)

MATE == <<"m", "a", "t", "e">>
CARMATE == <<"c", "a", "r", "m", "a", "t", "e">>

PxIsTitles == {MATE \o <<"_", "i", "s">>, <<"M", "a", "t", "e">> \o <<"_", "I", "S">>}
PxBsTitles == {MATE \o <<"_", "b", "s">>, <<"M", "a", "t", "e">> \o <<"_", "B", "S">>}
PxOldPrefixes == {MATE, <<"M", "a", "t", "e">>}
PxNewPrefixes == {CARMATE, <<"c", "a", "r", "M", "a", "t", "e">>, MATE \o <<"s">>, <<"b">>}

PxInit ==
    /\ rw = RwIdle
    /\ rp = RpIdle
    /\ UpdIdle
    /\ \E it \in PxIsTitles, bt \in PxBsTitles, o \in PxOldPrefixes,
          n \in PxNewPrefixes, d \in BOOLEAN :
         \E ir \in {it, LowerText(it)}, br \in {bt, LowerText(bt)} :
           unit = [pc |-> "rename", workbook |-> RnWorkbook(it, bt, ir, br),
                   before |-> RnWorkbook(it, bt, ir, br),
                   is_ref |-> ir, bs_ref |-> br,
                   old_prefix |-> o, new_prefix |-> n, dry_run |-> d,
                   sheets_renamed |-> 0, formulas_updated |-> 0]

SpecRenamePrefix == PxInit /\ [][RnNext]_vars

\* a real rename of both sheets has returned
PxRenamed == unit.pc = "renamed" /\ ~unit.dry_run /\ unit.sheets_renamed = 2

\* every reference of the formula names the new name of its sheet, and a
\* sheet of that name exists
PxNamesNewSheets ==
    LET new_is == unit.new_prefix \o <<"_", "I", "S">>
        new_bs == unit.new_prefix \o <<"_", "b", "s">>
    IN  /\ unit.workbook[3].cells[<<2, 3>>] = Str(RnFormula(new_is, new_bs))
        /\ HasSheet(unit.workbook, new_is)
        /\ HasSheet(unit.workbook, new_bs)

\* C29: after the rename every reference to an old raw-data sheet name names
\* exactly the sheet's new name, which exists in the workbook, for every pair
\* of old and new prefixes, also when the new prefix contains the old one.
C29_ReferencesNameNewSheets == PxRenamed => PxNamesNewSheets

\* what does hold: the same, unless the new prefix ends with the old prefix
\* in lower case
C29_UnlessNewEndsWithOld ==
    PxRenamed /\ ~EndsWith(unit.new_prefix, LowerText(unit.old_prefix)) => PxNamesNewSheets

----------------------------------------------------------------------------
(* generate_diff_report beside a dry-run incremental merge of the same     *)
(* sheets and exports.                                                      *)

\* a balance sheet: ExistingBS, with a formula in E12 or not
MgBsSheet(with_formula) ==
    IF with_formula THEN Put(ExistingBS, START_ROW, 5, Str(<<"=", "D", "1", "2">>))
    ELSE ExistingBS

\* the sheet as an export carries it: a number in place of every formula
MgComputed(ws) ==
    [k \in DOMAIN ws |-> IF is_formula(ws[k]) THEN Num(<<"9">>) ELSE ws[k]]

MgExportKinds == DfExportKinds \cup {"computed"}

MgExport(ws, kind) ==
    IF kind = "computed"
    THEN [present |-> TRUE, parts |-> <<>>, ws |-> MgComputed(ws)]
    ELSE DfExport(ws, kind)

MgInit ==
    /\ rw = RwIdle
    /\ rp = RpIdle
    /\ UpdIdle
    /\ \E title \in IsTitles, repeated \in BOOLEAN, as_datetime \in BOOLEAN,
          with_formula \in BOOLEAN,
          ik \in MgExportKinds \cup {"none"}, bk \in MgExportKinds \cup {"none"} :
           unit = [pc |-> "compare",
                   workbook |-> <<[title |-> title,
                                   cells |-> DfIsSheet(repeated, as_datetime)],
                                  [title |-> <<"a", "_", "b", "s">>,
                                   cells |-> MgBsSheet(with_formula)]>>,
                   is_export |-> IF ik = "none" THEN NoExport
                                 ELSE MgExport(DfIsSheet(repeated, as_datetime), ik),
                   bs_export |-> IF bk = "none" THEN NoExport
                                 ELSE MgExport(MgBsSheet(with_formula), bk),
                   report |-> <<>>, is_merge |-> <<>>, bs_merge |-> <<>>]

\* the changes a dry-run incremental merge of one sheet reports, as
\* update_workbook calls it: for an export given and a sheet found
MgDryMerge(book, sheet_name, export, sheet_type) ==
    IF export.present /\ sheet_name # <<>>
    THEN update_raw_data_sheet(Sheet(book, sheet_name), export.ws, sheet_type, TRUE).changes
    ELSE <<>>

\* one call of generate_diff_report, and one dry-run merge of each sheet
MgCompare ==
    /\ unit.pc = "compare"
    /\ unit' = [unit EXCEPT
                   !.pc = "compared",
                   !.report = generate_diff_report(unit.workbook, unit.is_export,
                                                   unit.bs_export),
                   !.is_merge = MgDryMerge(unit.workbook, find_sheets(unit.workbook).is_sheet,
                                           unit.is_export, "is"),
                   !.bs_merge = MgDryMerge(unit.workbook, find_sheets(unit.workbook).bs_sheet,
                                           unit.bs_export, "bs")]
    /\ UNCHANGED <<rw, rp, updVars>>

MgNext == MgCompare

SpecDiffMerge == MgInit /\ [][MgNext]_vars

\* the (row, column, old value, new value) of a list of changes
ChangeSet(changes) ==
    {<<ch.row, ch.col, ch.old_value, ch.new_value>> : ch \in Range(changes)}

\* the same, of the changes whose old value is no formula
ChangeSetOfValues(changes) ==
    {<<ch.row, ch.col, ch.old_value, ch.new_value>> :
        ch \in {c \in Range(changes) : ~is_formula(c.old_value)}}

\* C30: for each sheet type the set of (row, column, old value, new value)
\* changes in the diff report equals the set a dry-run incremental merge
\* reports for the same sheet and export, also when cells of the existing
\* sheet hold formulas.
C30_DiffEqualsDryMerge ==
    unit.pc = "compared" =>
        /\ ChangeSet(unit.report.is_changes) = ChangeSet(unit.is_merge)
        /\ ChangeSet(unit.report.bs_changes) = ChangeSet(unit.bs_merge)

\* what does hold: the merge reports the changes of the diff report whose
\* old value is no formula
C30_EqualButFormulaCells ==
    unit.pc = "compared" =>
        /\ ChangeSetOfValues(unit.report.is_changes) = ChangeSet(unit.is_merge)
        /\ ChangeSetOfValues(unit.report.bs_changes) = ChangeSet(unit.bs_merge)

====
